---- MODULE Spec2Model ----
(***************************************************************************)
(* A model of the order-workflow core of trading_with_shoonya:             *)
(*   src/transactional/shoonya_transaction.py   ShoonyaTransaction, main   *)
(*   src/transactional/transaction_manager_postgres.py   the Ledger        *)
(*   src/transactional/order_manager.py   feed session, day_over           *)
(*   src/utils.py   delay_decorator, get_remarks, round_to_point5          *)
(*   src/event_engine.py   EventEngine: the registry of reactions          *)
(* The orchestrator loop of main() calls the operations of                 *)
(* ShoonyaTransaction; the gateway pushes order updates and ticks, which   *)
(* the handlers of TransactionManager write to the Ledger.                 *)
(***************************************************************************)
EXTENDS Integers, Sequences, FiniteSets, TLC

VARIABLES
    proc,               \* the process: "running", "done" (main returned), "NameError" (ended by it)
    pc,                 \* position of main's loop: "while" (the test of over()) or "for" (the body)
    run,                \* number of the process run with this instance id (1 = first start)
    clock,              \* index into Instants: the wall clock
    order_queue,        \* ShoonyaTransaction.order_queue, the remaining-work set
    subscribed_symbols, \* OrderManager.subscribed_symbols (in memory)
    delay_elapsed,      \* per throttled function: more than `delay` seconds since last_called[0]
    gateway,            \* the broker's order book; an order's id (norenordno) is its index
    transactions,       \* Ledger table transactions: norenordno -> row
    symbols,            \* Ledger table symbols (rows of this instance)
    liveltp,            \* Ledger table liveltp: symbolcode -> ltp
    feed_calls,         \* api.subscribe / api.unsubscribe calls of this run, per subscribe code
    square_offs,        \* number of _square_off() calls that have returned
    resume_k,           \* 0, or the number of workflow steps of leg "ce" done by an earlier run
    engine,             \* EventEngine: on_complete_methods, existing_orders, and its history
    replayed,           \* history: the handlers given an order update a second time; "symbols": a symbol subscribed again
    not_ok,             \* per tag: api.place_order calls of this run answered by a failure or by nothing
    session,            \* OrderManager: opened, running, and the attempts start() has made
    order_prices,       \* Ledger table order_prices: tradingsymbol -> row (of this instance)
    throttle            \* delay_decorator's wrapper of one function: its closure, the time, the call in progress

vars == <<proc, pc, run, clock, order_queue, subscribed_symbols, delay_elapsed,
          gateway, transactions, symbols, liveltp, feed_calls, square_offs, resume_k,
          engine, replayed, not_ok, session, order_prices, throttle>>

(***************************************************************************)
(* Bounds of the model.                                                    *)
(***************************************************************************)
\* orders the gateway accepts in all
MaxOrders == 3

\* process runs with the same instance id
MaxRuns == 2

\* calls of _square_off
MaxSquareOffs == 2

\* orders of the gateway's book, the exit orders of _square_off included
MaxBook == 4

\* status changes of one order that the broker has made and the feed has not yet delivered
MaxLag == 1

(***************************************************************************)
(* Remarks (workflow tags).  utils.get_remarks builds                      *)
(* "<instance>|<item>_straddle"; every later tag appends "_<suffix>".  A   *)
(* tag is modelled as the sequence of its parts, so that endswith and the  *)
(* f"{remarks}_x" formatting are computed on the parts.                    *)
(***************************************************************************)
Items == {"ce", "pe"}

NoRemarks == <<>>

Straddle(item) == IF item = "ce" THEN "ce_straddle" ELSE "pe_straddle"

get_remarks(msg) == <<msg>>

Suffix(remarks, s) == Append(remarks, s)

OrderQueueInit ==
    UNION { { get_remarks(Straddle(item)),
              Suffix(get_remarks(Straddle(item)), "stop_loss"),
              Suffix(get_remarks(Straddle(item)), "subscribe"),
              Suffix(get_remarks(Straddle(item)), "book_profit"),
              Suffix(Suffix(get_remarks(Straddle(item)), "stop_loss"), "subscribe"),
              Suffix(get_remarks(Straddle(item)), "cancel"),
              Suffix(get_remarks(Straddle(item)), "unsubscribe") } : item \in Items }

(***************************************************************************)
(* Order statuses (const.OrderStatus).                                     *)
(***************************************************************************)
OPEN == "OPEN"
COMPLETE == "COMPLETE"
CANCELED == "CANCELED"
REJECTED == "REJECTED"
TRIGGER_PENDING == "TRIGGER_PENDING"
PENDING == "PENDING"

OrderStatus == {OPEN, COMPLETE, CANCELED, REJECTED, TRIGGER_PENDING, PENDING}

\* expected = None in get_for_remarks
AnyStatus == "None"

\* the (None, None) result of get_for_remarks; order ids start at 1
NoOrder == 0

(***************************************************************************)
(* The configuration main() resolves before the loop: strikes_data, qty,   *)
(* target.  The numbers are the scenario of the specification: quantity    *)
(* 50, call entry 120, put entry 118, target fraction 0.35.                *)
(***************************************************************************)
qty == 50

TargetPercent == 35

TargetLossPercent == 133

strikes_data ==
    [ce |-> [strike |-> "CE_STRIKE", code |-> "ce_code", ltp |-> 120,
             sl_strike |-> "CE_SL_STRIKE", sl_code |-> "ce_sl_code", sl_ltp |-> 20],
     pe |-> [strike |-> "PE_STRIKE", code |-> "pe_code", ltp |-> 118,
             sl_strike |-> "PE_SL_STRIKE", sl_code |-> "pe_sl_code", sl_ltp |-> 20]]

get_exchange(tradingsymbol) == "NFO"

\* premium * target, main lines 483-492
target_mtm == (qty * (strikes_data["ce"].ltp + strikes_data["pe"].ltp) * TargetPercent) \div 100

Codes == UNION {{strikes_data[i].code, strikes_data[i].sl_code} : i \in Items}

\* the prices a tick of the feed may carry for a symbol code
TickPrices(code) ==
    CASE code = "ce_code" -> {78, 274}
      [] code = "pe_code" -> {76}
      [] OTHER -> {20}

(***************************************************************************)
(* The wall clock, sampled before, inside and after the window that        *)
(* day_over tests.                                                         *)
(***************************************************************************)
Instants == << [hour |-> 15, minute |-> 30],
               [hour |-> 15, minute |-> 31],
               [hour |-> 16, minute |-> 0] >>

CutoffHour == 15

CutoffMinute == 31

now == Instants[clock]

day_over == now.hour = CutoffHour /\ now.minute >= CutoffMinute

(***************************************************************************)
(* OrderManager.start: the feed session.  __init__ (lines 26-28) sets      *)
(* opened and running to False; _open_callback sets opened.                *)
(***************************************************************************)
\* Passes of the loop of start(): a pass waits 30 s for the session to open and, if it
\* goes on, 30 s more (line 140); the test of line 135 (more than 60 s since the call)
\* ends the loop in the second pass.
StartPasses == 2

\* `socket` is the websocket itself ("none", "connecting", "open", "closed") and `at`
\* the position of start() in its loop ("top", "wait", "retry", or "returned")
NotStarted ==
    [opened |-> FALSE, running |-> FALSE, attempts |-> 0, socket |-> "none", at |-> "top"]

\* the session of a process whose start() found the session open in its first pass
Started ==
    [opened |-> TRUE, running |-> TRUE, attempts |-> 1, socket |-> "open", at |-> "returned"]

(***************************************************************************)
(* The Ledger reads.                                                       *)
(***************************************************************************)
\* the status the Ledger holds for an order id, "None" without a row
RowStatus(i) == IF i \in DOMAIN transactions THEN transactions[i].status ELSE AnyStatus

RowsFor(remarks) == {i \in DOMAIN transactions : transactions[i].remarks = remarks}

\* The possible results <<norenordno, status>> of get_for_remarks: the query has no
\* ORDER BY, so fetchone() returns any one row with these remarks.
get_for_remarks(remarks, expected) ==
    IF RowsFor(remarks) = {}
    THEN {<<NoOrder, AnyStatus>>}
    ELSE { IF expected = AnyStatus \/ transactions[i].status = expected
           THEN <<i, transactions[i].status>>
           ELSE <<NoOrder, AnyStatus>> : i \in RowsFor(remarks) }

get_orders == DOMAIN transactions

\* rows of transactions JOIN symbols JOIN liveltp
PnlJoin ==
    { <<i, s>> \in (DOMAIN transactions) \X symbols :
        /\ transactions[i].tradingsymbol = s.tradingsymbol
        /\ s.symbolcode \in DOMAIN liveltp }

\* every row valued as a sold one
RowPnlAsSell(i, s) ==
    LET row == transactions[i]
        ltp == liveltp[s.symbolcode]
    IN  IF row.avgprice = -1 \/ row.qty = -1 THEN 0
        ELSE (row.avgprice - ltp) * row.qty

\* the body of the loop over rows, lines 365-374
RowPnl(i, s) ==
    LET row == transactions[i]
        ltp == liveltp[s.symbolcode]
    IN  IF row.avgprice = -1 \/ row.qty = -1 THEN 0
        ELSE IF row.buysell = "B" THEN (ltp - row.avgprice) * row.qty
        ELSE (row.avgprice - ltp) * row.qty

RECURSIVE SumPnl(_)
SumPnl(S) ==
    IF S = {} THEN 0
    ELSE LET x == CHOOSE y \in S : TRUE
         IN  RowPnl(x[1], x[2]) + SumPnl(S \ {x})

get_pnl == SumPnl(PnlJoin)

\* the rows of the join the loop does not skip (line 370)
PnlRows == {x \in PnlJoin : transactions[x[1]].avgprice # -1 /\ transactions[x[1]].qty # -1}

\* The possible breakdowns msg of lines 363-383, without "Total": line 377 assigns
\* msg[tradingsymbol] for every row, so a symbol's entry is that of the last row of the
\* symbol, and the query has no ORDER BY.  An entry is its "pnl".
PnlMsgs ==
    LET keys == {transactions[x[1]].tradingsymbol : x \in PnlRows}
    IN  { msg \in [keys -> {RowPnl(x[1], x[2]) : x \in PnlRows}] :
            \A k \in keys : \E x \in PnlRows :
                transactions[x[1]].tradingsymbol = k /\ msg[k] = RowPnl(x[1], x[2]) }

\* msg["Total"], line 387 (prices and quantities are whole numbers: round changes nothing)
PnlTotal == get_pnl

(***************************************************************************)
(* The gateway (broker) side of the API calls.                             *)
(***************************************************************************)
api_place_order(order_data) ==
    [remarks |-> order_data.remarks,
     tsym |-> order_data.tradingsymbol,
     trantype |-> order_data.buy_or_sell,
     qty |-> order_data.quantity,
     prctyp |-> order_data.price_type,
     prc |-> order_data.price,
     status |-> PENDING,
     cancels |-> 0,
     run |-> run]

\* the order book after cancel_order(norenordno): an order still working is canceled
api_cancel_order(book, norenordno) ==
    [book EXCEPT ![norenordno] =
        [@ EXCEPT !.cancels = @ + 1,
                  !.status = IF @ \in {PENDING, OPEN, TRIGGER_PENDING} THEN CANCELED ELSE @]]

\* The statuses the broker may move an order to: a new order is PENDING; it is
\* rejected, or accepted (TRIGGER_PENDING for a stop order, OPEN otherwise); an
\* accepted order fills or is canceled.
BrokerNext(o) ==
    CASE o.status = PENDING ->
            {IF o.prctyp = "SL-LMT" THEN TRIGGER_PENDING ELSE OPEN, REJECTED}
      [] o.status \in {OPEN, TRIGGER_PENDING} -> {COMPLETE, CANCELED}
      [] OTHER -> {}

\* the number of status changes an order has gone through to reach a status
Rank(status) ==
    CASE status = AnyStatus -> 0
      [] status = PENDING -> 1
      [] status \in {OPEN, TRIGGER_PENDING, REJECTED} -> 2
      [] OTHER -> 3

(***************************************************************************)
(* ShoonyaTransaction.place_order                                          *)
(***************************************************************************)
\* the possible values of parent_present
ParentPresent(parent_remarks, parent_status) ==
    IF parent_remarks = NoRemarks THEN {TRUE}
    ELSE { parent_remarks \notin order_queue /\ r[1] # NoOrder :
             r \in get_for_remarks(parent_remarks, parent_status) }

\* the test of line 88 without `not result`
PlaceGuardParentOnly(result, parent_present, exit_order) ==
    parent_present \/ exit_order \in order_queue

\* the test of line 88
PlaceGuard(result, parent_present, exit_order) ==
    (result = NoOrder /\ parent_present) \/ exit_order \in order_queue

\* the queue left as it is, lines 92-94 not run
QueueKept(remarks, exit_order) == order_queue

\* lines 92-94
QueueAfterPlace(remarks, exit_order) ==
    (order_queue \ {remarks}) \ {exit_order}

\* place_order, lines 77-94, with the possible results of the read of line 87
place_order_reading(order_data, parent_remarks, parent_status, exit_order, results) ==
    IF order_data.remarks \notin order_queue
    THEN UNCHANGED <<order_queue, gateway>>
    ELSE \E parent_present \in ParentPresent(parent_remarks, parent_status),
            res \in results :
            IF PlaceGuard(res[1], parent_present, exit_order)
            THEN /\ Len(gateway) < MaxOrders
                 /\ gateway' = Append(gateway, api_place_order(order_data))
                 /\ order_queue' = QueueAfterPlace(order_data.remarks, exit_order)
            ELSE UNCHANGED <<order_queue, gateway>>

place_order(order_data, parent_remarks, parent_status, exit_order) ==
    place_order_reading(order_data, parent_remarks, parent_status, exit_order,
                        get_for_remarks(order_data.remarks, AnyStatus))

\* The result of get_for_remarks when cursor.execute raises psycopg2.OperationalError:
\* the except clause of lines 322-325 logs it, response stays None, and line 333
\* returns (None, None) to the caller.
get_for_remarks_failed == <<NoOrder, AnyStatus>>

\* place_order when the query of its read of line 87 fails
place_order_read_fails(order_data, parent_remarks, parent_status, exit_order) ==
    place_order_reading(order_data, parent_remarks, parent_status, exit_order,
                        {get_for_remarks_failed})

\* calls of api.place_order for one tag that the gateway answers by a failure
MaxNotOk == 2

\* What api.place_order returns when it places no order: the gateway's
\* {"stat": "Not_Ok"} or None.  The order's acknowledgement is "Ok".
FailedResponses == {"Not_Ok", "None"}

NotOkCalls(remarks) == IF remarks \in DOMAIN not_ok THEN not_ok[remarks] ELSE 0

\* lines 92-94 run after an acknowledged submission only
QueueAfterOk(response, remarks, exit_order) ==
    IF response = "Ok" THEN QueueAfterPlace(remarks, exit_order) ELSE order_queue

\* lines 90-94: the response is logged and not tested
QueueAfterResponse(response, remarks, exit_order) == QueueAfterPlace(remarks, exit_order)

\* place_order, lines 77-94, when the gateway answers the call of line 89 by a
\* failed or empty response: no order is added to the broker's book
place_order_not_ok(order_data, parent_remarks, parent_status, exit_order, response) ==
    IF order_data.remarks \notin order_queue
    THEN UNCHANGED <<order_queue, gateway, not_ok>>
    ELSE \E parent_present \in ParentPresent(parent_remarks, parent_status),
            res \in get_for_remarks(order_data.remarks, AnyStatus) :
            IF PlaceGuard(res[1], parent_present, exit_order)
            THEN /\ NotOkCalls(order_data.remarks) < MaxNotOk
                 /\ not_ok' = (order_data.remarks :> NotOkCalls(order_data.remarks) + 1) @@ not_ok
                 /\ order_queue' = QueueAfterResponse(response, order_data.remarks, exit_order)
                 /\ UNCHANGED gateway
            ELSE UNCHANGED <<order_queue, gateway, not_ok>>

(***************************************************************************)
(* OrderManager.subscribe / unsubscribe and                                *)
(* TransactionManager.subscribe_symbols / unsubscribe_symbols              *)
(***************************************************************************)
SubscribeCode(symbol_data) == <<symbol_data.exchange, symbol_data.symbolcode>>

subscribe_symbols(symbol_data) ==
    /\ feed_calls' = [feed_calls EXCEPT !["subscribe"][SubscribeCode(symbol_data)] = @ + 1]
    /\ subscribed_symbols' = subscribed_symbols \cup {SubscribeCode(symbol_data)}
    /\ symbols' = {s \in symbols : s.symbolcode # symbol_data.symbolcode}
                    \cup {[symbolcode |-> symbol_data.symbolcode,
                           exchange |-> symbol_data.exchange,
                           tradingsymbol |-> symbol_data.tradingsymbol]}
    /\ replayed' = IF \E s \in symbols : s.symbolcode = symbol_data.symbolcode
                   THEN replayed \cup {"symbols"}
                   ELSE replayed

\* unsubscribe_symbols that also deletes the row of the symbol from the table
unsubscribe_symbols_deleting(symbol_data) ==
    /\ subscribed_symbols' = subscribed_symbols \ {SubscribeCode(symbol_data)}
    /\ feed_calls' = [feed_calls EXCEPT !["unsubscribe"][SubscribeCode(symbol_data)] = @ + 1]
    /\ symbols' = {s \in symbols : s.symbolcode # symbol_data.symbolcode}

unsubscribe_symbols(symbol_data) ==
    /\ subscribed_symbols' = subscribed_symbols \ {SubscribeCode(symbol_data)}
    /\ feed_calls' = [feed_calls EXCEPT !["unsubscribe"][SubscribeCode(symbol_data)] = @ + 1]
    /\ UNCHANGED symbols

(***************************************************************************)
(* ShoonyaTransaction.subscribe / unsubscribe                              *)
(***************************************************************************)
\* subscribe with the parent looked up in any status
subscribe_any_status(symbol_data, remarks, parent_remarks, parent_status) ==
    IF remarks \notin order_queue \/ parent_remarks \in order_queue
    THEN UNCHANGED <<order_queue, subscribed_symbols, symbols, feed_calls, replayed>>
    ELSE \E res \in get_for_remarks(parent_remarks, AnyStatus) :
            IF res[1] # NoOrder
            THEN /\ subscribe_symbols(symbol_data)
                 /\ order_queue' = order_queue \ {remarks}
            ELSE UNCHANGED <<order_queue, subscribed_symbols, symbols, feed_calls, replayed>>

\* lines 96-117
subscribe(symbol_data, remarks, parent_remarks, parent_status) ==
    IF remarks \notin order_queue \/ parent_remarks \in order_queue
    THEN UNCHANGED <<order_queue, subscribed_symbols, symbols, feed_calls, replayed>>
    ELSE \E res \in get_for_remarks(parent_remarks, parent_status) :
            IF res[1] # NoOrder
            THEN /\ subscribe_symbols(symbol_data)
                 /\ order_queue' = order_queue \ {remarks}
            ELSE UNCHANGED <<order_queue, subscribed_symbols, symbols, feed_calls, replayed>>

\* unsubscribe without line 138, the tag left in the queue
unsubscribe_keeps_tag(symbol_data, remarks, parent_remarks) ==
    IF remarks \notin order_queue
    THEN UNCHANGED <<order_queue, subscribed_symbols, symbols, feed_calls>>
    ELSE \E book_profit \in get_for_remarks(Suffix(parent_remarks, "book_profit"), COMPLETE),
            cancelled \in get_for_remarks(parent_remarks, CANCELED) :
            IF book_profit[1] # NoOrder \/ cancelled[1] # NoOrder
            THEN /\ unsubscribe_symbols(symbol_data)
                 /\ UNCHANGED order_queue
            ELSE UNCHANGED <<order_queue, subscribed_symbols, symbols, feed_calls>>

\* lines 119-138
unsubscribe(symbol_data, remarks, parent_remarks) ==
    IF remarks \notin order_queue
    THEN UNCHANGED <<order_queue, subscribed_symbols, symbols, feed_calls>>
    ELSE \E book_profit \in get_for_remarks(Suffix(parent_remarks, "book_profit"), COMPLETE),
            cancelled \in get_for_remarks(parent_remarks, CANCELED) :
            IF book_profit[1] # NoOrder \/ cancelled[1] # NoOrder
            THEN /\ unsubscribe_symbols(symbol_data)
                 /\ order_queue' = order_queue \ {remarks}
            ELSE UNCHANGED <<order_queue, subscribed_symbols, symbols, feed_calls>>

(***************************************************************************)
(* ShoonyaTransaction.cancel_on_book_profit                                *)
(***************************************************************************)
cancel_on_book_profit(remarks, parent_remarks, parent_status, cancel_remarks) ==
    IF remarks \notin order_queue \/ parent_remarks \in order_queue
    THEN UNCHANGED <<order_queue, gateway>>
    ELSE \E parent \in get_for_remarks(parent_remarks, parent_status),
            res \in get_for_remarks(cancel_remarks, AnyStatus) :
            IF parent[1] # NoOrder /\ res[1] # NoOrder /\ res[2] = TRIGGER_PENDING
            THEN /\ gateway' = api_cancel_order(gateway, res[1])
                 /\ order_queue' = order_queue \ {remarks}
            ELSE IF parent[1] # NoOrder /\ res[1] # NoOrder /\ res[2] = COMPLETE
            THEN /\ order_queue' = order_queue \ {remarks}
                 /\ UNCHANGED gateway
            ELSE UNCHANGED <<order_queue, gateway>>

(***************************************************************************)
(* ShoonyaTransaction.place_book_profit_sl, under @delay_decorator(15).    *)
(* main() has its call commented out (lines 610-612).  Prices are whole    *)
(* rupees; round_to_point5 is computed on hundredths.                      *)
(***************************************************************************)
\* --book-profit, here 0.5 (the default 0.2 gives 23.5, not a whole price)
BookProfitPercent == 50

\* utils.round_to_point5 on hundredths: round(x * 2) / 2, with Python's rounding of
\* a half to the even integer
round_to_point5(x100) ==
    LET q == x100 \div 50
        r == x100 % 50
        n == IF 2 * r < 50 THEN q
             ELSE IF 2 * r > 50 THEN q + 1
             ELSE IF q % 2 = 0 THEN q ELSE q + 1
    IN  n * 50

\* line 458
min_ltp == IF strikes_data["ce"].ltp <= strikes_data["pe"].ltp
           THEN strikes_data["ce"].ltp ELSE strikes_data["pe"].ltp

\* lines 530-532, in rupees
book_profit_ltp == round_to_point5(min_ltp * BookProfitPercent) \div 100

\* get_ltp returns None without a row
NoLtp == 0

\* The possible results of TransactionManager.get_ltp: fetchone() on the join of
\* liveltp and symbols.
get_ltp(tradingsymbol) ==
    LET found == { liveltp[s.symbolcode] :
                     s \in {x \in symbols : /\ x.tradingsymbol = tradingsymbol
                                             /\ x.symbolcode \in DOMAIN liveltp} }
    IN  IF found = {} THEN {NoLtp} ELSE found

\* line 395, diff_percent > diff_threshold with diff_percent of line 393
DiffOverThreshold(ltp, book_profit_price, diff_threshold) ==
    ltp * 100 < (100 - diff_threshold) * book_profit_price

\* order_data of lines 397-409
BookProfitOrderData(order, book_profit_price, quantity) ==
    [buy_or_sell |-> "B",
     tradingsymbol |-> order.tradingsymbol,
     quantity |-> quantity,
     price_type |-> "SL-LMT",
     price |-> book_profit_price,
     remarks |-> Suffix(order.remarks, "book_profit")]

\* One iteration of the loop over all_orders, lines 378-424, on the pair of the
\* gateway's book and the queue.
PlaceBookProfitOne(st, i, book_profit_price, quantity) ==
    LET order == transactions[i]
        ltp == CHOOSE x \in get_ltp(order.tradingsymbol) : TRUE
    IN  IF Len(order.remarks) # 1 \/ order.status # COMPLETE THEN st
        ELSE IF Suffix(order.remarks, "book_profit") \notin st.queue THEN st
        ELSE IF ltp = NoLtp THEN st
        ELSE IF DiffOverThreshold(ltp, book_profit_price, 5)
        THEN [book |-> Append(st.book,
                              api_place_order(BookProfitOrderData(order, book_profit_price,
                                                                  quantity))),
              queue |-> st.queue \ {Suffix(order.remarks, "book_profit")}]
        ELSE st

RECURSIVE PlaceBookProfitLoop(_, _, _, _)
PlaceBookProfitLoop(st, rows, book_profit_price, quantity) ==
    IF rows = {} THEN st
    ELSE LET i == CHOOSE x \in rows : \A y \in rows : x <= y
         IN  PlaceBookProfitLoop(PlaceBookProfitOne(st, i, book_profit_price, quantity),
                                 rows \ {i}, book_profit_price, quantity)

\* a call that the throttle lets through
place_book_profit_sl(book_profit_price, quantity) ==
    IF \A item \in Items :
          Suffix(get_remarks(Straddle(item)), "book_profit") \notin order_queue
    THEN UNCHANGED <<order_queue, gateway>>
    ELSE LET st == PlaceBookProfitLoop([book |-> gateway, queue |-> order_queue],
                                       get_orders, book_profit_price, quantity)
         IN  /\ Len(st.book) <= MaxOrders
             /\ gateway' = st.book
             /\ order_queue' = st.queue

(***************************************************************************)
(* ShoonyaTransaction._square_off                                          *)
(***************************************************************************)
\* the side of the order itself
SameSide(buysell) == buysell

\* line 264
Opposite(buysell) == IF buysell = "S" THEN "B" ELSE "S"

\* the exit order of lines 266-278 for a Ledger row
ExitOrder(order) ==
    [buy_or_sell |-> Opposite(order.buysell),
     tradingsymbol |-> order.tradingsymbol,
     quantity |-> order.qty,
     price_type |-> "MKT",
     price |-> 0,
     remarks |-> Suffix(order.remarks, "square_off")]

\* the gateway call of one iteration of the loop over order_book, lines 250-281
SquareOffOne(book, i) ==
    LET order == transactions[i]
    IN  IF order.status \in {OPEN, TRIGGER_PENDING, PENDING}
        THEN api_cancel_order(book, i)
        ELSE IF order.status = COMPLETE
        THEN Append(book, api_place_order(ExitOrder(order)))
        ELSE book

\* The loop over order_book.  get_orders has no ORDER BY; the rows are taken by
\* ascending order id: another order only permutes the ids of the exit orders.
RECURSIVE SquareOffLoop(_, _)
SquareOffLoop(book, rows) ==
    IF rows = {} THEN book
    ELSE LET i == CHOOSE x \in rows : \A y \in rows : x <= y
         IN  SquareOffLoop(SquareOffOne(book, i), rows \ {i})

_square_off ==
    /\ square_offs < MaxSquareOffs
    /\ Len(SquareOffLoop(gateway, get_orders)) <= MaxBook
    /\ gateway' = SquareOffLoop(gateway, get_orders)
    /\ order_queue' = {}
    /\ square_offs' = square_offs + 1

(***************************************************************************)
(* utils.delay_decorator, lines 403-421.  One decorated function is        *)
(* followed with the time in seconds: `now` is time.time(), `last_called`  *)
(* the closure's last_called[0], `entered` the local `now` of the wrapper, *)
(* `phase` where the call is, `returned` what the last call returned.      *)
(* `body_started` and `bodies` are history: the time at which the body     *)
(* last started, and the number of times it has started.                   *)
(***************************************************************************)
\* the decorated functions main's loop calls, and the delay of each: lines 182, 230
\* and 222 of shoonya_transaction.py
ThrottledFunctions == {"cancel_on_profit", "_both_legs_rejected", "display_stats"}

delay == [cancel_on_profit |-> 10, _both_legs_rejected |-> 5, display_stats |-> 60]

\* time.time() when the process starts: seconds since the epoch, more than any delay
StartTime == 100

\* the seconds of a run that are followed
MaxElapsed == 61

\* line 407: last_called = [0]
ThrottleInit(func) ==
    [func |-> func, now |-> StartTime, last_called |-> 0, entered |-> 0,
     phase |-> "idle", returned |-> "nothing", body_started |-> 0, bodies |-> 0]

\* the test of line 413 with >= for >
ThrottlePassesAtDelay(now_, last_called, delay_) == now_ - last_called >= delay_

\* the test of line 413
ThrottlePasses(now_, last_called, delay_) == now_ - last_called > delay_

\* everything but the wrapper's own state and the process
ThrottleOnly ==
    UNCHANGED <<pc, run, clock, order_queue, subscribed_symbols, delay_elapsed,
                gateway, transactions, order_prices, symbols, liveltp, feed_calls, square_offs,
                resume_k, engine, replayed, not_ok, session>>

\* a second passes; the time also passes while the body runs
ThrottleTick ==
    /\ proc = "running"
    /\ throttle.now < StartTime + MaxElapsed
    /\ throttle' = [throttle EXCEPT !.now = @ + 1]
    /\ UNCHANGED proc
    /\ ThrottleOnly

\* wrapper, lines 411-413 and 419: the call reads the time and either enters the
\* body or returns None
WrapperCall ==
    /\ proc = "running"
    /\ throttle.phase = "idle"
    /\ IF ThrottlePasses(throttle.now, throttle.last_called, delay[throttle.func])
       THEN throttle' = [throttle EXCEPT !.entered = throttle.now,
                                         !.phase = "body",
                                         !.body_started = throttle.now,
                                         !.bodies = @ + 1]
       ELSE throttle' = [throttle EXCEPT !.entered = throttle.now,
                                         !.returned = "None"]
    /\ UNCHANGED proc
    /\ ThrottleOnly

\* lines 414-417: the body returns, last_called[0] becomes the time the call read
BodyReturns ==
    /\ proc = "running"
    /\ throttle.phase = "body"
    /\ throttle' = [throttle EXCEPT !.last_called = throttle.entered,
                                    !.phase = "idle",
                                    !.returned = "result"]
    /\ UNCHANGED proc
    /\ ThrottleOnly

\* line 414 raises: the exception leaves the wrapper before line 416, and main(),
\* which has no handler, ends
BodyRaises ==
    /\ proc = "running"
    /\ throttle.phase = "body"
    /\ throttle' = [throttle EXCEPT !.phase = "raised"]
    /\ proc' = "Exception"
    /\ ThrottleOnly

(***************************************************************************)
(* ShoonyaTransaction.cancel_on_profit, under @delay_decorator(delay=10)   *)
(***************************************************************************)
\* the test of line 186; target_loss is compared in hundredths
BoundCrossed(total_pnl, target_profit, target_loss_x100) ==
    total_pnl > target_profit \/ total_pnl * 100 <= target_loss_x100

\* Line 191 names traget_loss, which is bound nowhere: evaluating the arguments of
\* logger.info raises NameError before line 193 calls _square_off().  main() does
\* not catch it, so the process ends; last_called[0] is not updated.
cancel_on_profit(target_profit, target_loss_x100) ==
    IF ~delay_elapsed["cancel_on_profit"]
    THEN UNCHANGED <<proc, delay_elapsed, order_queue, gateway, square_offs>>
    ELSE IF BoundCrossed(get_pnl, target_profit, target_loss_x100)
    THEN /\ proc' = "NameError"
         /\ UNCHANGED <<delay_elapsed, order_queue, gateway, square_offs>>
    ELSE /\ delay_elapsed' = [delay_elapsed EXCEPT !["cancel_on_profit"] = FALSE]
         /\ UNCHANGED <<proc, order_queue, gateway, square_offs>>

\* What get_pnl returns when cursor.execute raises (lines 357-360): the except clause
\* logs the error and returns the float -999.999 alone, not a pair.  `pair` tells
\* whether the value unpacks into two names; the total is in thousandths.
get_pnl_failed == [pair |-> FALSE, total |-> 0 - 999999]

\* cancel_on_profit when the query of get_pnl fails.  Line 185 unpacks the result into
\* (total_pnl, display_msg): a float does not unpack, TypeError is raised before the
\* test of line 186, main() does not catch it and the process ends; last_called[0]
\* is not updated.  The branch of a pair is that of cancel_on_profit.
cancel_on_profit_read_fails(target_profit, target_loss_x100) ==
    IF ~delay_elapsed["cancel_on_profit"]
    THEN UNCHANGED <<proc, delay_elapsed, order_queue, gateway, square_offs>>
    ELSE IF ~get_pnl_failed.pair
    THEN /\ proc' = "TypeError"
         /\ UNCHANGED <<delay_elapsed, order_queue, gateway, square_offs>>
    ELSE cancel_on_profit(target_profit, target_loss_x100)

(***************************************************************************)
(* ShoonyaTransaction._both_legs_rejected and over                         *)
(***************************************************************************)
\* the body with `or` between the two legs
AnyLegRejectedBody ==
    { ce[1] # NoOrder \/ pe[1] # NoOrder :
        ce \in get_for_remarks(get_remarks(Straddle("ce")), REJECTED),
        pe \in get_for_remarks(get_remarks(Straddle("pe")), REJECTED) }

\* the possible results of the body of _both_legs_rejected
BothLegsRejectedBody ==
    { ce[1] # NoOrder /\ pe[1] # NoOrder :
        ce \in get_for_remarks(get_remarks(Straddle("ce")), REJECTED),
        pe \in get_for_remarks(get_remarks(Straddle("pe")), REJECTED) }

\* The possible results of the decorated _both_legs_rejected: "None" when the call
\* falls inside the 5 seconds after the last executed call.
both_legs_rejected ==
    IF ~delay_elapsed["_both_legs_rejected"] THEN {"None"}
    ELSE {IF r THEN "True" ELSE "False" : r \in BothLegsRejectedBody}

\* lines 145-146 alone
over_queue_or_day(rejected) ==
    order_queue = {} \/ day_over

\* the value over() returns, given the result of _both_legs_rejected when it is called
over(rejected) ==
    order_queue = {} \/ day_over \/ rejected = "True"

(***************************************************************************)
(* main(): the calls of one pass of the for loop, lines 519-617, and the   *)
(* test of the while loop, line 518.  Each call is one step, and the       *)
(* handlers of the feed run between the calls.  A pass may make its calls  *)
(* in any order and any number of times: the order of lines 535-609, for   *)
(* "ce" and then for "pe", is one of these.                                *)
(***************************************************************************)
PrimaryOrder(item) ==
    [buy_or_sell |-> "S",
     tradingsymbol |-> strikes_data[item].strike,
     quantity |-> qty,
     price_type |-> "LMT",
     price |-> strikes_data[item].ltp,
     remarks |-> get_remarks(Straddle(item))]

StopLossOrder(item) ==
    [buy_or_sell |-> "B",
     tradingsymbol |-> strikes_data[item].sl_strike,
     quantity |-> qty,
     price_type |-> "SL-LMT",
     price |-> strikes_data[item].sl_ltp,
     remarks |-> Suffix(get_remarks(Straddle(item)), "stop_loss")]

PrimarySymbol(item) ==
    [symbolcode |-> strikes_data[item].code,
     exchange |-> get_exchange(strikes_data[item].strike),
     tradingsymbol |-> strikes_data[item].strike]

StopLossSymbol(item) ==
    [symbolcode |-> strikes_data[item].sl_code,
     exchange |-> get_exchange(strikes_data[item].sl_strike),
     tradingsymbol |-> strikes_data[item].sl_strike]

InBody == proc = "running" /\ pc = "for"

\* line 535
MainPlaceStraddle(item) ==
    /\ InBody
    /\ place_order(PrimaryOrder(item), NoRemarks, COMPLETE, NoRemarks)
    /\ UNCHANGED <<proc, pc, run, clock, subscribed_symbols, delay_elapsed, transactions, order_prices, throttle,
                   symbols, liveltp, feed_calls, square_offs, resume_k, session, not_ok,
                   engine, replayed>>

\* line 550
MainSubscribeStraddle(item) ==
    /\ InBody
    /\ subscribe(PrimarySymbol(item), Suffix(get_remarks(Straddle(item)), "subscribe"),
                 get_remarks(Straddle(item)), COMPLETE)
    /\ UNCHANGED <<proc, pc, run, clock, delay_elapsed, gateway, transactions, order_prices, throttle,
                   liveltp, square_offs, resume_k, session, not_ok,
                   engine>>

\* line 560 with the parent awaited in status Open
MainPlaceStopLossOnOpen(item) ==
    /\ InBody
    /\ place_order(StopLossOrder(item), get_remarks(Straddle(item)), OPEN, NoRemarks)
    /\ UNCHANGED <<proc, pc, run, clock, subscribed_symbols, delay_elapsed, transactions,
                   order_prices, throttle, symbols, liveltp, feed_calls, square_offs, resume_k,
                   session, not_ok, engine, replayed>>

\* line 560
MainPlaceStopLoss(item) ==
    /\ InBody
    /\ place_order(StopLossOrder(item), get_remarks(Straddle(item)), COMPLETE, NoRemarks)
    /\ UNCHANGED <<proc, pc, run, clock, subscribed_symbols, delay_elapsed, transactions, order_prices, throttle,
                   symbols, liveltp, feed_calls, square_offs, resume_k, session, not_ok,
                   engine, replayed>>

\* line 576
MainSubscribeStopLoss(item) ==
    /\ InBody
    /\ subscribe(StopLossSymbol(item),
                 Suffix(Suffix(get_remarks(Straddle(item)), "stop_loss"), "subscribe"),
                 Suffix(get_remarks(Straddle(item)), "stop_loss"), COMPLETE)
    /\ UNCHANGED <<proc, pc, run, clock, delay_elapsed, gateway, transactions, order_prices, throttle,
                   liveltp, square_offs, resume_k, session, not_ok,
                   engine>>

\* line 586
MainCancelOnBookProfit(item) ==
    /\ InBody
    /\ cancel_on_book_profit(Suffix(get_remarks(Straddle(item)), "cancel"),
                             Suffix(get_remarks(Straddle(item)), "book_profit"), COMPLETE,
                             Suffix(get_remarks(Straddle(item)), "stop_loss"))
    /\ UNCHANGED <<proc, pc, run, clock, subscribed_symbols, delay_elapsed, transactions, order_prices, throttle,
                   symbols, liveltp, feed_calls, square_offs, resume_k, session, not_ok,
                   engine, replayed>>

\* line 593
MainCancelOnProfit ==
    /\ InBody
    /\ cancel_on_profit(target_mtm, 0 - target_mtm * TargetLossPercent)
    /\ UNCHANGED <<pc, run, clock, subscribed_symbols, transactions, order_prices, throttle, symbols, liveltp,
                   feed_calls, resume_k, session, not_ok,
                   engine, replayed>>

\* line 599
MainUnsubscribe(item) ==
    /\ InBody
    /\ unsubscribe(PrimarySymbol(item), Suffix(get_remarks(Straddle(item)), "unsubscribe"),
                   get_remarks(Straddle(item)))
    /\ UNCHANGED <<proc, pc, run, clock, delay_elapsed, gateway, transactions, order_prices, throttle,
                   liveltp, square_offs, resume_k, session, not_ok,
                   engine, replayed>>

\* the end of a pass of the for loop: back to the test of the while loop
MainEndFor ==
    /\ InBody
    /\ pc' = "while"
    /\ UNCHANGED <<proc, run, clock, order_queue, subscribed_symbols, delay_elapsed, gateway,
                   transactions, order_prices, throttle, symbols, liveltp, feed_calls, square_offs, resume_k, session, not_ok,
                   engine, replayed>>

\* Line 518, `while not shoonya_transaction.over()`.  `or` short-circuits:
\* _both_legs_rejected is called only when the queue is non-empty and the day is not
\* over, and a call that executes its body sets last_called[0].
MainWhileOver ==
    /\ proc = "running" /\ pc = "while"
    /\ \E rejected \in (IF order_queue = {} \/ day_over THEN {"NotCalled"}
                        ELSE both_legs_rejected) :
          /\ delay_elapsed' = IF rejected \in {"True", "False"}
                              THEN [delay_elapsed EXCEPT !["_both_legs_rejected"] = FALSE]
                              ELSE delay_elapsed
          /\ IF over(rejected)
             THEN proc' = "done" /\ UNCHANGED pc
             ELSE pc' = "for" /\ UNCHANGED proc
    /\ UNCHANGED <<run, clock, order_queue, subscribed_symbols, gateway, transactions, order_prices, throttle,
                   symbols, liveltp, feed_calls, square_offs, resume_k, session, not_ok,
                   engine, replayed>>

(***************************************************************************)
(* The handlers of the feed (the asynchronous delivery context).           *)
(***************************************************************************)
\* the price of a fill: the order's price, or the quoted price for a market order
FillPrice(o) ==
    IF o.prctyp # "MKT" THEN o.prc
    ELSE IF \E i \in Items : strikes_data[i].strike = o.tsym
    THEN strikes_data[CHOOSE i \in Items : strikes_data[i].strike = o.tsym].ltp
    ELSE strikes_data[CHOOSE i \in Items : strikes_data[i].sl_strike = o.tsym].sl_ltp

\* upsert_data of lines 159-182 for the update the broker sends for order o: the
\* fill fields flprc and fillshares come with a fill only
UpsertData(o) ==
    [remarks |-> o.remarks,
     avgprice |-> IF o.status = COMPLETE THEN FillPrice(o) ELSE -1,
     qty |-> o.qty,
     buysell |-> o.trantype,
     tradingsymbol |-> o.tsym,
     status |-> o.status]

\* the transactions table after the INSERT ... ON CONFLICT (norenordno) DO UPDATE of
\* lines 184-201
Upsert(table, norenordno, upsert_data) == (norenordno :> upsert_data) @@ table

\* upsert_data of lines 207-213: the price and quantity the update carries, and its tag
PriceData(o) == [price |-> o.prc, qty |-> o.qty, remarks |-> o.remarks]

\* the order_prices table after the INSERT ... ON CONFLICT (tradingsymbol, instance)
\* DO UPDATE of lines 216-226: (tradingsymbol, instance) is the primary key of the
\* table (line 140), so the table holds one row for a trading symbol
UpsertPrices(table, o) == (o.tsym :> PriceData(o)) @@ table

\* the value that stands for None
NoPrice == -1

\* TransactionManager.get_order_prices, lines 460-475
get_order_prices(tradingsymbol, remarks) ==
    IF tradingsymbol \in DOMAIN order_prices /\ order_prices[tradingsymbol].remarks = remarks
    THEN <<order_prices[tradingsymbol].price, order_prices[tradingsymbol].qty>>
    ELSE <<NoPrice, NoPrice>>

\* a handler that puts the tag of the update back into the remaining-work set
handler_requeues(remarks) ==
    /\ order_queue' = order_queue \cup {remarks}
    /\ UNCHANGED subscribed_symbols

\* what the handlers of lines 150-256 leave alone: TransactionManager holds no
\* order_queue, and the handlers do not name subscribed_symbols
handler_frame(remarks) == UNCHANGED <<order_queue, subscribed_symbols>>

\* TransactionManager._event_handler_order_update for the latest status of order i.
\* Updates of one order that arrive between two steps of the loop are seen as the last.
OrderUpdate(i) ==
    /\ proc = "running"
    /\ i \in DOMAIN gateway
    /\ RowStatus(i) # gateway[i].status
    /\ transactions' = Upsert(transactions, i, UpsertData(gateway[i]))
    /\ order_prices' = UpsertPrices(order_prices, gateway[i])
    /\ UNCHANGED throttle
    /\ handler_frame(gateway[i].remarks)
    /\ UNCHANGED <<proc, pc, run, clock, delay_elapsed,
                   gateway, symbols, liveltp, feed_calls, square_offs, resume_k, session, not_ok,
                   engine, replayed>>

\* TransactionManager._event_handler_feed_update for a tick of a subscribed symbol
FeedUpdate(code, lp) ==
    /\ proc = "running"
    /\ \E sc \in subscribed_symbols : sc[2] = code
    /\ (IF code \in DOMAIN liveltp THEN liveltp[code] # lp ELSE TRUE)
    /\ liveltp' = (code :> lp) @@ liveltp
    /\ UNCHANGED <<proc, pc, run, clock, order_queue, subscribed_symbols, delay_elapsed,
                   gateway, transactions, order_prices, throttle, symbols, feed_calls, square_offs, resume_k, session, not_ok,
                   engine, replayed>>

\* the status the broker gives an order it accepts
AcceptedStatus(o) == IF o.prctyp = "SL-LMT" THEN TRIGGER_PENDING ELSE OPEN

\* the statuses an order has had before its present one: the updates sent earlier
PastStatuses(o) ==
    CASE o.status = PENDING -> {}
      [] o.status = OPEN /\ o.prctyp = "SL-LMT" -> {PENDING, TRIGGER_PENDING}
      [] o.status \in {OPEN, TRIGGER_PENDING, REJECTED} -> {PENDING}
      [] o.status = COMPLETE -> {PENDING, AcceptedStatus(o)}
      [] OTHER -> {PENDING}

\* _event_handler_order_update given the latest update of order i once more
ReplayOrderUpdate(i) ==
    /\ proc = "running"
    /\ i \in DOMAIN gateway
    /\ RowStatus(i) = gateway[i].status
    /\ transactions' = Upsert(transactions, i, UpsertData(gateway[i]))
    /\ order_prices' = UpsertPrices(order_prices, gateway[i])
    /\ UNCHANGED throttle
    /\ replayed' = replayed \cup {"ledger"}
    /\ handler_frame(gateway[i].remarks)
    /\ UNCHANGED <<proc, pc, run, clock, delay_elapsed,
                   gateway, symbols, liveltp, feed_calls, square_offs, resume_k, session, not_ok, engine>>

\* _event_handler_order_update given an earlier update of order i: one that arrives
\* late, or again after a reconnect of the feed
StaleOrderUpdate(i, status) ==
    /\ proc = "running"
    /\ i \in DOMAIN transactions
    /\ status \in PastStatuses(gateway[i])
    /\ transactions' = Upsert(transactions, i, UpsertData([gateway[i] EXCEPT !.status = status]))
    /\ order_prices' = UpsertPrices(order_prices, gateway[i])
    /\ UNCHANGED throttle
    /\ replayed' = IF RowStatus(i) = status THEN replayed \cup {"ledger"} ELSE replayed
    /\ handler_frame(gateway[i].remarks)
    /\ UNCHANGED <<proc, pc, run, clock, delay_elapsed,
                   gateway, symbols, liveltp, feed_calls, square_offs, resume_k, session, not_ok, engine>>

(***************************************************************************)
(* Order updates of other instances.  The feed of the account carries the  *)
(* updates of every order of the account.  The text of a tag is            *)
(* f"{instance_id}|{msg}" (utils.get_remarks): here the characters of the  *)
(* instance id, then "|", then msg.  The tags of this instance are kept as *)
(* their parts after "|"; those of other instances as their full text.     *)
(***************************************************************************)
\* self.instance_id: f"{process_id}_{timestamp}" of get_instance_id, or --instance_id
instance_id == <<"7", "_", "1">>

\* ids of other instances: one this id is a prefix of, one that is a prefix of this
\* id, one that differs in its first character
OtherInstances == {<<"7", "_", "1", "2">>, <<"7", "_">>, <<"8", "_", "1">>}

\* utils.get_remarks, lines 431-435, as text
remarks_text(instance, msg) == instance \o <<"|", msg>>

\* str.startswith
startswith(text, prefix) ==
    Len(prefix) <= Len(text) /\ SubSeq(text, 1, Len(prefix)) = prefix

\* lines 144-148
_check_for_self(remarks) == startswith(remarks, instance_id)

\* the order ids of the primary orders of the other instances
ForeignOrders ==
    [other \in OtherInstances |-> 100 + Len(other)]

\* the primary order of leg "ce" another instance has placed, in a status
ForeignOrder(other, status) ==
    [remarks |-> remarks_text(other, Straddle("ce")),
     tsym |-> strikes_data["ce"].strike,
     trantype |-> "S",
     qty |-> qty,
     prctyp |-> "LMT",
     prc |-> strikes_data["ce"].ltp,
     status |-> status,
     cancels |-> 0,
     run |-> 1]

\* _event_handler_order_update, lines 150-204, for an update of an order of another
\* instance: ignored unless _check_for_self passes
ForeignOrderUpdate(other, status) ==
    /\ proc = "running"
    /\ RowStatus(ForeignOrders[other]) # status
    /\ IF _check_for_self(remarks_text(other, Straddle("ce")))
       THEN /\ transactions' = Upsert(transactions, ForeignOrders[other],
                                      UpsertData(ForeignOrder(other, status)))
            /\ order_prices' = UpsertPrices(order_prices, ForeignOrder(other, status))
       ELSE UNCHANGED <<transactions, order_prices>>
    /\ handler_frame(remarks_text(other, Straddle("ce")))
    /\ UNCHANGED throttle
    /\ UNCHANGED <<proc, pc, run, clock, delay_elapsed,
                   gateway, symbols, liveltp, feed_calls, square_offs, resume_k, not_ok,
                   session, engine, replayed>>

(***************************************************************************)
(* EventEngine (src/event_engine.py): the registry of one-shot reactions   *)
(* and its handler of order updates.  A registration of a message is       *)
(* numbered; `fired` counts the calls of each registered reaction.         *)
(***************************************************************************)
\* registrations of one message
MaxRegistrations == 1

EngineMessages == {get_remarks(Straddle(item)) : item \in Items}

\* the message has no entry in on_complete_methods
NotRegistered == 0

\* no call of subscribe or unsubscribe is under way
NoCall == [op |-> "none", symbol |-> "none"]

\* __init__, lines 22-38, with the history of the engine: `registered` and `fired` per
\* message, `executed` (the actions run() has called, in order), `at_call` and `base`
\* (user_methods and the length of `executed` when run() was called last), `delivered`
\* (the parity of the number of order updates given), `reopens` and `resubscribed`, and
\* with the gateway's side of the session: `connected`, and `live`, the symbols
\* subscribed on the live session.  symbols_init_data and tick_data are keyed by the
\* code of a symbol; `exits` holds the tags of the exit orders _monitor_function has
\* registered.  run_pc is the position of run(): 0 when it is not
\* called, the index of the loop of line 472, or RunLoopDone before line 483.
EngineInit ==
    [on_complete_methods |-> [m \in EngineMessages |-> NotRegistered],
     existing_orders |-> {},
     registered |-> [m \in EngineMessages |-> 0],
     fired |-> [m \in EngineMessages |-> [n \in 1..MaxRegistrations |-> 0]],
     opened |-> FALSE,
     running |-> FALSE,
     subscribed_symbols |-> {},
     user_methods |-> <<>>,
     run_pc |-> 0,
     executed |-> <<>>,
     at_call |-> <<>>,
     base |-> 0,
     delivered |-> 0,
     connected |-> FALSE,
     live |-> {},
     call |-> NoCall,
     reopens |-> 0,
     resubscribed |-> 0,
     in_position |-> FALSE,
     symbols_init_data |-> <<>>,
     tick_data |-> <<>>,
     exits |-> {}]

\* register (lines 430-454) and evt_register (lines 456-467): the entry of the message
\* in on_complete_methods is set
evt_register(subscribe_msg) ==
    /\ engine.registered[subscribe_msg] < MaxRegistrations
    /\ engine' = [engine EXCEPT
                    !.registered[subscribe_msg] = @ + 1,
                    !.on_complete_methods[subscribe_msg] = engine.registered[subscribe_msg] + 1]

add_existing_orders(norenordno) ==
    /\ norenordno \notin engine.existing_orders
    /\ engine' = [engine EXCEPT !.existing_orders = @ \cup {norenordno}]

\* the statuses and report types of the updates the feed gives the engine for a
\* status of an order; a cancellation is spelled either way
EngineUpdates(status) ==
    CASE status = COMPLETE -> {[status |-> "COMPLETE", reporttype |-> "Fill"]}
      [] status = CANCELED -> {[status |-> "CANCELED", reporttype |-> "Canceled"],
                               [status |-> "CANCELLED", reporttype |-> "Canceled"]}
      [] status = REJECTED -> {[status |-> "REJECTED", reporttype |-> "Rejected"]}
      [] OTHER -> {[status |-> status, reporttype |-> "New"]}

\* the registry left as it is, line 321 not run
NotConsumed(methods, message) == methods

\* the registry with the entry of the message deleted, line 321
Consumed(methods, message) == [methods EXCEPT ![message] = NotRegistered]

\* the engine after EventEngine._event_handler_order_update, lines 267-338
EngineAfterUpdate(order_data) ==
    LET message == order_data.remarks
        norenordno == order_data.norenordno
    IN  IF \/ order_data.status = "COMPLETE" /\ order_data.reporttype = "Fill"
           \/ order_data.status = "CANCELLED" /\ order_data.reporttype = "Canceled"
        THEN IF /\ message \in EngineMessages
                /\ engine.on_complete_methods[message] # NotRegistered
                /\ norenordno \in engine.existing_orders
             THEN IF order_data.status = "CANCELLED"
                  THEN [engine EXCEPT
                          !.on_complete_methods = [@ EXCEPT ![message] = NotRegistered]]
                  ELSE [engine EXCEPT
                          !.fired[message][engine.on_complete_methods[message]] = @ + 1,
                          !.on_complete_methods = Consumed(@, message)]
             ELSE engine
        ELSE engine

\* EventEngine._event_handler_order_update, lines 267-338
EngineHandler(order_data) == engine' = EngineAfterUpdate(order_data)

\* registered messages are those of the primary orders
EngineRegister(subscribe_msg) ==
    /\ proc = "running"
    /\ evt_register(subscribe_msg)
    /\ UNCHANGED <<proc, pc, run, clock, order_queue, subscribed_symbols, delay_elapsed,
                   gateway, transactions, order_prices, throttle, symbols, liveltp, feed_calls, square_offs,
                   resume_k, session, not_ok, replayed>>

EngineAddExistingOrders(i) ==
    /\ proc = "running"
    /\ i \in DOMAIN gateway
    /\ add_existing_orders(i)
    /\ UNCHANGED <<proc, pc, run, clock, order_queue, subscribed_symbols, delay_elapsed,
                   gateway, transactions, order_prices, throttle, symbols, liveltp, feed_calls, square_offs,
                   resume_k, session, not_ok, replayed>>

\* The feed gives the engine an update of order i: the latest, or an earlier one, any
\* number of times.  `replayed` records an update given after the order's reaction
\* has been called.
EngineOrderUpdate(i, status, u) ==
    /\ proc = "running"
    /\ i \in DOMAIN gateway
    /\ status \in PastStatuses(gateway[i]) \cup {gateway[i].status}
    /\ u \in EngineUpdates(status)
    /\ EngineHandler([norenordno |-> i, remarks |-> gateway[i].remarks,
                      status |-> u.status, reporttype |-> u.reporttype])
    /\ replayed' = IF /\ gateway[i].remarks \in EngineMessages
                      /\ \E n \in 1..MaxRegistrations : engine.fired[gateway[i].remarks][n] > 0
                      /\ i \in engine.existing_orders
                   THEN replayed \cup {"engine"}
                   ELSE replayed
    /\ UNCHANGED <<proc, pc, run, clock, order_queue, subscribed_symbols, delay_elapsed,
                   gateway, transactions, order_prices, throttle, symbols, liveltp, feed_calls, square_offs,
                   resume_k, session, not_ok>>

(***************************************************************************)
(* EventEngine on its own: the session, the flags, the queue of actions    *)
(* and run(), subscribe and unsubscribe.  The handlers run on the thread   *)
(* of the websocket, next to the thread that calls run(), subscribe and    *)
(* unsubscribe: a call is a sequence of steps where it reads or writes the *)
(* engine more than once.                                                  *)
(***************************************************************************)
\* order ids the feed reports to the engine
MaxEngineOrders == 1

\* reconnects of the websocket
MaxReopens == 2

\* f"{exchange_code}|{symbol_code}"
EngineSymbols == {"NFO|ce_code"}

\* the tags of the updates given to the engine: the registered messages and one other
EngineRemarks == EngineMessages \cup {Suffix(get_remarks(Straddle("ce")), "stop_loss")}

EngineEvents ==
    [norenordno : 1..MaxEngineOrders,
     remarks : EngineRemarks,
     update : UNION {EngineUpdates(status) : status \in {COMPLETE, CANCELED, REJECTED, OPEN}}]

\* every variable but the engine
EngineOnly ==
    UNCHANGED <<proc, pc, run, clock, order_queue, subscribed_symbols, delay_elapsed,
                gateway, transactions, order_prices, throttle, symbols, liveltp, feed_calls, square_offs,
                resume_k, not_ok, session, replayed>>

\* lines 340-344
_all_unsubscribed == Cardinality(engine.subscribed_symbols) = 0

\* the test of on_complete_methods alone, as the docstring of is_running has it
registry_completed ==
    \A m \in EngineMessages : engine.on_complete_methods[m] = NotRegistered

\* lines 346-351
_all_registration_completed ==
    /\ \A m \in EngineMessages : engine.on_complete_methods[m] = NotRegistered
    /\ Len(engine.user_methods) = 0

\* lines 411-422
is_running ==
    \/ engine.running
    \/ ~_all_unsubscribed
    \/ ~_all_registration_completed

\* _open_callback, lines 250-265, when the websocket has connected: a new session holds
\* no subscription but those of line 262
EngineOpenCallback ==
    /\ ~engine.connected
    /\ engine.opened => engine.reopens < MaxReopens
    /\ engine' =
          IF engine.opened
          THEN IF engine.subscribed_symbols # {}
               THEN [engine EXCEPT !.connected = TRUE,
                                   !.reopens = @ + 1,
                                   !.resubscribed = @ + 1,
                                   !.live = engine.subscribed_symbols]
               ELSE [engine EXCEPT !.connected = TRUE, !.reopens = @ + 1]
          ELSE [engine EXCEPT !.connected = TRUE, !.opened = TRUE]
    /\ EngineOnly

\* the connection is lost, and with it the subscriptions of the session
SessionDrop ==
    /\ engine.connected
    /\ engine.reopens < MaxReopens
    /\ engine' = [engine EXCEPT !.connected = FALSE, !.live = {}]
    /\ EngineOnly

\* start, lines 395-409, from the end of its wait for opened
EngineStart ==
    /\ engine.opened
    /\ ~engine.running
    /\ engine' = [engine EXCEPT !.running = TRUE]
    /\ EngineOnly

\* _event_handler_feed_update, line 70, when _monitor_function returns False
EngineMonitorStops ==
    /\ engine.running
    /\ engine' = [engine EXCEPT !.running = FALSE]
    /\ EngineOnly

\* register, lines 430-454: the action is queued and the reaction registered
register(subscribe_msg) ==
    /\ engine.registered[subscribe_msg] < MaxRegistrations
    /\ engine' = [engine EXCEPT
                    !.registered[subscribe_msg] = @ + 1,
                    !.user_methods = Append(@, <<subscribe_msg, engine.registered[subscribe_msg] + 1>>),
                    !.on_complete_methods[subscribe_msg] = engine.registered[subscribe_msg] + 1]

EngineRegisterAction(subscribe_msg) ==
    /\ register(subscribe_msg)
    /\ EngineOnly

EngineAddOrder(norenordno) ==
    /\ add_existing_orders(norenordno)
    /\ EngineOnly

\* _event_handler_order_update for an update the feed gives the engine
EngineEvent(event) ==
    /\ engine.opened
    /\ engine' = [EngineAfterUpdate([norenordno |-> event.norenordno,
                                      remarks |-> event.remarks,
                                      status |-> event.update.status,
                                      reporttype |-> event.update.reporttype])
                    EXCEPT !.delivered = 1 - @]
    /\ EngineOnly

\* run() has left the loop of line 472 and has not yet run line 483
RunLoopDone == -1

\* the queue left as it is, line 483 not run
user_methods_kept(user_methods) == user_methods

\* line 483
user_methods_emptied(user_methods) == <<>>

\* run is called, line 468
RunCall ==
    /\ engine.run_pc = 0
    /\ engine' = [engine EXCEPT !.run_pc = 1,
                                !.at_call = engine.user_methods,
                                !.base = Len(engine.executed)]
    /\ EngineOnly

\* one pass of the loop of lines 472-481: the list is read at every pass, and holds
\* what has been appended to it since the call
RunStep ==
    /\ engine.run_pc >= 1
    /\ engine.run_pc <= Len(engine.user_methods)
    /\ Len(engine.executed) < 2 * MaxRegistrations * Cardinality(EngineMessages)
    /\ engine' = [engine EXCEPT !.run_pc = @ + 1,
                                !.executed = Append(@, engine.user_methods[engine.run_pc])]
    /\ EngineOnly

\* the loop of line 472 finds the list exhausted
RunLoopEnds ==
    /\ engine.run_pc >= 1
    /\ engine.run_pc > Len(engine.user_methods)
    /\ engine' = [engine EXCEPT !.run_pc = RunLoopDone]
    /\ EngineOnly

\* line 483, and run returns
RunReturn ==
    /\ engine.run_pc = RunLoopDone
    /\ engine' = [engine EXCEPT !.run_pc = 0,
                                !.user_methods = user_methods_emptied(@)]
    /\ EngineOnly

\* subscribe, lines 357-360: api.subscribe, on a connected session (what the call does
\* on a closed socket is the library's)
SubscribeCall(symbol) ==
    /\ engine.running
    /\ engine.connected
    /\ engine.call = NoCall
    /\ symbol \notin engine.subscribed_symbols
    /\ engine' = [engine EXCEPT
                    !.call = [op |-> "subscribe", symbol |-> symbol],
                    !.live = @ \cup {symbol}]
    /\ EngineOnly

\* subscribe, line 362
SubscribeUpdate ==
    /\ engine.call.op = "subscribe"
    /\ engine' = [engine EXCEPT !.call = NoCall,
                                !.subscribed_symbols = @ \cup {engine.call.symbol}]
    /\ EngineOnly

\* unsubscribe, lines 372-378
UnsubscribeRemove(symbol) ==
    /\ engine.opened
    /\ engine.call = NoCall
    /\ symbol \in engine.subscribed_symbols
    /\ engine' = [engine EXCEPT
                    !.call = [op |-> "unsubscribe", symbol |-> symbol],
                    !.subscribed_symbols = @ \ {symbol}]
    /\ EngineOnly

\* unsubscribe, line 379: api.unsubscribe; a closed socket has no subscription to end
UnsubscribeCall ==
    /\ engine.call.op = "unsubscribe"
    /\ engine' = [engine EXCEPT
                    !.call = NoCall,
                    !.live = IF engine.connected THEN @ \ {engine.call.symbol} ELSE @]
    /\ EngineOnly

(***************************************************************************)
(* EventEngine's handler of ticks: the position data of add_symbol_init_data, *)
(* the last tick of each symbol, the PnL of _get_pnl and _get_displayed_pnl *)
(* and the exit of _monitor_function at the target.  Amounts are in        *)
(* hundredths.                                                             *)
(***************************************************************************)
TickSymbols == {"ce_code", "pe_code"}

\* f"{exchange_code}|{symbol_code}", line 163
Subscription(symbol_code) == IF symbol_code = "ce_code" THEN "NFO|ce_code" ELSE "NFO|pe_code"

\* the order that opened the position in a symbol, and the tag of the order
TickOrder == [ce_code |-> 1, pe_code |-> 2]

TickRemarks(norenordno) == get_remarks(Straddle(IF norenordno = 1 THEN "ce" ELSE "pe"))

\* the position data of a symbol: one lot at 100.00, bought or sold
Positions(symbol_code) ==
    [qty : {1}, avg_price : {10000}, buy_or_sell : {"B", "S"},
     norenordno : {TickOrder[symbol_code]}]

\* the messages of the feed: a tick with its last price, or one without
Ticks == [tk : TickSymbols, lp : {9000, 12000}] \cup [tk : TickSymbols]

\* the statuses get_order_book reports for the orders
OrderBooks == [{TickOrder[s] : s \in TickSymbols} -> {COMPLETE, OPEN}]

\* __init__, line 26
EngineTarget == 1500

\* _get_pnl, line 56: -999.99
PnlNotFound == 0 - 99999

\* _get_pnl, lines 40-56
_get_pnl(symbols_init_data, symbol, ltp) ==
    IF symbol \in DOMAIN symbols_init_data
    THEN LET qty_ == symbols_init_data[symbol].qty
             avg_price == symbols_init_data[symbol].avg_price
         IN  IF symbols_init_data[symbol].buy_or_sell = "B"
             THEN (ltp - avg_price) * qty_
             ELSE (avg_price - ltp) * qty_
    ELSE PnlNotFound

RECURSIVE TotalPnl(_, _)
\* _get_displayed_pnl, line 90, over the symbols of tick_data
TotalPnl(tick_data, keys) ==
    IF keys = {} THEN 0
    ELSE LET symbol == CHOOSE k \in keys : TRUE
         IN  tick_data[symbol].pnl + TotalPnl(tick_data, keys \ {symbol})

\* _get_displayed_pnl, lines 77-93: line 84 raises KeyError for a symbol of tick_data
\* that has no position data; Total is the sum of the pnl of every symbol of tick_data
_get_displayed_pnl(e) ==
    [raised |-> ~(DOMAIN e.tick_data \subseteq DOMAIN e.symbols_init_data),
     Total |-> TotalPnl(e.tick_data, DOMAIN e.tick_data)]

\* unsubscribe, lines 368-383, called by _monitor_function
unsubscribed(e, symbol) ==
    [e EXCEPT !.subscribed_symbols = @ \ {symbol},
              !.live = IF e.connected THEN @ \ {symbol} ELSE @]

\* _cancel_all_orders, lines 95-112: the reactions of the pending orders of the
\* instance are removed
_cancel_all_orders(e, order_book) ==
    [e EXCEPT !.on_complete_methods =
        [m \in EngineMessages |->
            IF \E n \in e.existing_orders \cap DOMAIN order_book :
                  order_book[n] = OPEN /\ TickRemarks(n) = m
            THEN NotRegistered
            ELSE @[m]]]

\* the symbol whose position data names the order, lines 155-158
SymbolCodes(e, norenordno) ==
    {code \in DOMAIN e.symbols_init_data : e.symbols_init_data[code].norenordno = norenordno}

RECURSIVE ExitLoop(_, _, _)
\* _monitor_function, lines 141-202: the loop over the order book, orders 1..n
ExitLoop(e, order_book, n) ==
    IF n = 0 THEN e
    ELSE LET before == ExitLoop(e, order_book, n - 1)
         IN  IF /\ n \in DOMAIN order_book
                /\ order_book[n] = COMPLETE
                /\ n \in before.existing_orders
                /\ SymbolCodes(before, n) # {}
             THEN LET symbol_code == CHOOSE code \in SymbolCodes(before, n) : TRUE
                      exit == Suffix(TickRemarks(n), "exit")
                      left == unsubscribed(before, Subscription(symbol_code))
                  IN  _cancel_all_orders(
                         [left EXCEPT !.user_methods = Append(@, <<exit, 1>>),
                                      !.exits = @ \cup {exit}],
                         order_book)
             ELSE before

\* _monitor_function, lines 115-211, when _get_displayed_pnl has returned: the engine
\* after the call, `running` set to the value returned (line 70)
_monitor_function(e, order_book) ==
    IF _get_displayed_pnl(e).Total > EngineTarget
    THEN [ExitLoop(e, order_book, Cardinality(DOMAIN order_book)) EXCEPT !.running = FALSE]
    ELSE [e EXCEPT !.running = TRUE]

\* every variable but the engine and the state of the process
TickOnly ==
    UNCHANGED <<pc, run, clock, order_queue, subscribed_symbols, delay_elapsed,
                gateway, transactions, order_prices, throttle, symbols, liveltp, feed_calls,
                square_offs, resume_k, not_ok, session, replayed>>

\* _event_handler_feed_update, lines 58-75: an exception of the body ends in
\* sys.exit(-1)
_event_handler_feed_update(tick, order_book) ==
    IF ~engine.running
    THEN /\ engine' = [engine EXCEPT !.in_position = FALSE]
         /\ UNCHANGED proc
    ELSE IF "lp" \in DOMAIN tick /\ engine.in_position
         THEN LET stored == [engine EXCEPT !.tick_data =
                                (tick.tk :> [pnl |-> _get_pnl(engine.symbols_init_data,
                                                              tick.tk, tick.lp),
                                             lp |-> tick.lp]) @@ @]
              IN  IF _get_displayed_pnl(stored).raised
                  THEN /\ engine' = stored
                       /\ proc' = "SystemExit"
                  ELSE /\ engine' = _monitor_function(stored, order_book)
                       /\ UNCHANGED proc
         ELSE UNCHANGED <<engine, proc>>

\* the feed gives a tick of a symbol subscribed on the live session
TickUpdate(tick, order_book) ==
    /\ proc = "running"
    /\ engine.connected
    /\ Subscription(tick.tk) \in engine.live
    /\ _event_handler_feed_update(tick, order_book)
    /\ TickOnly

\* add_symbol_init_data, lines 485-512
add_symbol_init_data(symbol_code, position) ==
    /\ proc = "running"
    /\ engine' = [engine EXCEPT
                    !.symbols_init_data = (symbol_code :> position) @@ @,
                    !.in_position = TRUE]
    /\ EngineOnly

\* the calls of the owner of the engine, while the process runs
TickOpenCallback == proc = "running" /\ EngineOpenCallback

\* start is called before the exit at the target
TickStart == proc = "running" /\ engine.exits = {} /\ EngineStart

TickAddOrder(norenordno) == proc = "running" /\ EngineAddOrder(norenordno)

TickSubscribeCall(symbol_code) == proc = "running" /\ SubscribeCall(Subscription(symbol_code))

TickSubscribeUpdate == proc = "running" /\ SubscribeUpdate

\* a tick of a symbol without position data is given to the handler while the engine
\* runs and is in position
UnknownTick(tick) ==
    /\ engine.running
    /\ engine.in_position
    /\ "lp" \in DOMAIN tick
    /\ tick.tk \notin DOMAIN engine.symbols_init_data

\* C39: a tick for a symbol that has no position data, received while the engine runs
\* and is in position, does not end the process, does not put the failure value of
\* _get_pnl into the data the total PnL is summed from, and does not start the exit.
C39_TickHandlingTotal ==
    [][\A tick \in Ticks : \A order_book \in OrderBooks :
          (UnknownTick(tick) /\ TickUpdate(tick, order_book)) =>
             /\ proc' = "running"
             /\ \A s \in DOMAIN engine'.tick_data : engine'.tick_data[s].pnl # PnlNotFound
             /\ engine'.exits = engine.exits
             /\ engine'.running]_vars

(***************************************************************************)
(* The environment: the broker, the time, the process.                     *)
(***************************************************************************)
BrokerStep(i, status) ==
    /\ i \in DOMAIN gateway
    /\ Rank(gateway[i].status) - Rank(RowStatus(i)) < MaxLag
    /\ status \in BrokerNext(gateway[i])
    /\ gateway' = [gateway EXCEPT ![i].status = status]
    /\ UNCHANGED <<proc, pc, run, clock, order_queue, subscribed_symbols, delay_elapsed,
                   transactions, order_prices, throttle, symbols, liveltp, feed_calls, square_offs, resume_k, session, not_ok,
                   engine, replayed>>

\* more than `delay` seconds have passed since the last executed call of func
DelayElapses(func) ==
    /\ proc = "running"
    /\ ~delay_elapsed[func]
    /\ delay_elapsed' = [delay_elapsed EXCEPT ![func] = TRUE]
    /\ UNCHANGED <<proc, pc, run, clock, order_queue, subscribed_symbols, gateway,
                   transactions, order_prices, throttle, symbols, liveltp, feed_calls, square_offs, resume_k, session, not_ok,
                   engine, replayed>>

\* The wall clock is read by over() only, so it is moved on between two passes of
\* the loop.
ClockAdvances ==
    /\ pc = "while"
    /\ clock < Len(Instants)
    /\ clock' = clock + 1
    /\ UNCHANGED <<proc, pc, run, order_queue, subscribed_symbols, delay_elapsed, gateway,
                   transactions, order_prices, throttle, symbols, liveltp, feed_calls, square_offs, resume_k, session, not_ok,
                   engine, replayed>>

DelayedFunctions == {"cancel_on_profit", "_both_legs_rejected"}

NoFeedCalls ==
    [op \in {"subscribe", "unsubscribe"} |->
        [sc \in {<<get_exchange(c), c>> : c \in Codes} |-> 0]]

\* main() started again with --instance_id: ShoonyaTransaction.__init__ rebuilds
\* order_queue; subscribed_symbols and last_called start afresh; the Ledger stays.
\* proc = "running": the process is killed first, at any point.
Restart ==
    /\ run < MaxRuns
    /\ run' = run + 1
    /\ proc' = "running"
    /\ pc' = "while"
    /\ order_queue' = OrderQueueInit
    /\ subscribed_symbols' = {}
    /\ delay_elapsed' = [f \in DelayedFunctions |-> TRUE]
    /\ feed_calls' = NoFeedCalls
    /\ not_ok' = <<>>
    /\ throttle' = [ThrottleInit(throttle.func) EXCEPT !.now = throttle.now]
    /\ UNCHANGED <<clock, gateway, transactions, order_prices, symbols, liveltp, square_offs, resume_k, session,
                   engine, replayed>>

(***************************************************************************)
(* The program: main() on a fresh instance id.                             *)
(***************************************************************************)
Init ==
    /\ proc = "running"
    /\ pc = "while"
    /\ run = 1
    /\ clock \in 1..Len(Instants)
    /\ order_queue = OrderQueueInit
    /\ subscribed_symbols = {}
    /\ delay_elapsed = [f \in DelayedFunctions |-> TRUE]
    /\ gateway = <<>>
    /\ transactions = <<>>
    /\ order_prices = <<>>
    /\ throttle = ThrottleInit("cancel_on_profit")
    /\ symbols = {}
    /\ liveltp = <<>>
    /\ feed_calls = NoFeedCalls
    /\ square_offs = 0
    /\ resume_k = 0
    /\ engine = EngineInit
    /\ replayed = {}
    /\ not_ok = <<>>
    /\ session = Started

MainNext ==
    \/ MainWhileOver
    \/ \E item \in Items : MainPlaceStraddle(item)
    \/ \E item \in Items : MainSubscribeStraddle(item)
    \/ \E item \in Items : MainPlaceStopLoss(item)
    \/ \E item \in Items : MainSubscribeStopLoss(item)
    \/ \E item \in Items : MainCancelOnBookProfit(item)
    \/ MainCancelOnProfit
    \/ \E item \in Items : MainUnsubscribe(item)
    \/ MainEndFor

\* one run of the process, with the broker, the feed and the time
Next ==
    \/ MainNext
    \/ \E i \in 1..MaxOrders : OrderUpdate(i)
    \/ \E code \in Codes : \E lp \in TickPrices(code) : FeedUpdate(code, lp)
    \/ \E i \in 1..MaxOrders : \E status \in OrderStatus : BrokerStep(i, status)
    \/ \E func \in DelayedFunctions : DelayElapses(func)
    \/ ClockAdvances

Spec == Init /\ [][Next]_vars

(***************************************************************************)
(* The program killed and started again with the same instance id, before  *)
(* the cutoff and before the first tick.                                   *)
(***************************************************************************)
InitRestart == Init /\ clock = 1

NextRestart ==
    \/ MainNext
    \/ \E i \in 1..MaxOrders : OrderUpdate(i)
    \/ \E i \in 1..MaxOrders : \E status \in OrderStatus : BrokerStep(i, status)
    \/ Restart

SpecRestart == InitRestart /\ [][NextRestart]_vars

\* The loop makes every call of its body in every pass: a call that can act in
\* infinitely many passes does act.  The feed delivers the updates the broker sends.
FairRestart ==
    /\ SpecRestart
    /\ WF_vars(MainWhileOver)
    /\ WF_vars(MainEndFor)
    /\ SF_vars(MainCancelOnProfit)
    /\ \A item \in Items :
          /\ SF_vars(MainPlaceStraddle(item))
          /\ SF_vars(MainSubscribeStraddle(item))
          /\ SF_vars(MainPlaceStopLoss(item))
          /\ SF_vars(MainSubscribeStopLoss(item))
          /\ SF_vars(MainCancelOnBookProfit(item))
          /\ SF_vars(MainUnsubscribe(item))
    /\ \A i \in 1..MaxOrders : WF_vars(OrderUpdate(i))

(***************************************************************************)
(* The program started with the instance id of an earlier run that did the *)
(* first resume_k steps of leg "ce": the Ledger holds Complete rows for    *)
(* the orders of these steps and the symbols subscribed by them.           *)
(***************************************************************************)
BookProfitOrder(item) ==
    [buy_or_sell |-> "B",
     tradingsymbol |-> strikes_data[item].strike,
     quantity |-> qty,
     price_type |-> "SL-LMT",
     price |-> book_profit_ltp,
     remarks |-> Suffix(get_remarks(Straddle(item)), "book_profit")]

\* the orders of steps 1..k of leg "ce" (steps 1, 3 and 5 place one), filled
ResumeBook(k) ==
    LET filled(order_data) ==
            [api_place_order(order_data) EXCEPT !.status = COMPLETE, !.run = 1]
    IN  (IF k >= 1 THEN <<filled(PrimaryOrder("ce"))>> ELSE <<>>)
        \o (IF k >= 3 THEN <<filled(StopLossOrder("ce"))>> ELSE <<>>)
        \o (IF k >= 5 THEN <<filled(BookProfitOrder("ce"))>> ELSE <<>>)

\* the symbols steps 2 and 4 subscribed
ResumeSymbols(k) ==
    (IF k >= 2 THEN {PrimarySymbol("ce")} ELSE {})
        \cup (IF k >= 4 THEN {StopLossSymbol("ce")} ELSE {})

\* the order_prices table after the updates of the first n orders of the book, each
\* order's last update having come before the next order was placed
RECURSIVE ResumePrices(_, _)
ResumePrices(book, n) ==
    IF n = 0 THEN <<>> ELSE UpsertPrices(ResumePrices(book, n - 1), book[n])

InitResume ==
    /\ proc = "running"
    /\ pc = "while"
    /\ run = 2
    /\ clock = 1
    /\ order_queue = OrderQueueInit
    /\ subscribed_symbols = {}
    /\ delay_elapsed = [f \in DelayedFunctions |-> TRUE]
    /\ resume_k \in 1..7
    /\ gateway = ResumeBook(resume_k)
    /\ transactions = [i \in DOMAIN gateway |-> UpsertData(gateway[i])]
    /\ order_prices = ResumePrices(gateway, Len(gateway))
    /\ throttle = ThrottleInit("cancel_on_profit")
    /\ symbols = ResumeSymbols(resume_k)
    /\ liveltp = <<>>
    /\ feed_calls = NoFeedCalls
    /\ square_offs = 0
    /\ engine = EngineInit
    /\ replayed = {}
    /\ not_ok = <<>>
    /\ session = Started

NextResume ==
    \/ MainNext
    \/ \E i \in 1..MaxOrders : OrderUpdate(i)
    \/ \E i \in 1..MaxOrders : \E status \in OrderStatus : BrokerStep(i, status)

SpecResume == InitResume /\ [][NextResume]_vars

(***************************************************************************)
(* One decorated function, called again and again while the time passes.   *)
(***************************************************************************)
InitThrottle ==
    /\ proc = "running"
    /\ pc = "while"
    /\ run = 1
    /\ clock = 1
    /\ order_queue = OrderQueueInit
    /\ subscribed_symbols = {}
    /\ delay_elapsed = [f \in DelayedFunctions |-> TRUE]
    /\ gateway = <<>>
    /\ transactions = <<>>
    /\ order_prices = <<>>
    /\ \E func \in ThrottledFunctions : throttle = ThrottleInit(func)
    /\ symbols = {}
    /\ liveltp = <<>>
    /\ feed_calls = NoFeedCalls
    /\ square_offs = 0
    /\ resume_k = 0
    /\ engine = EngineInit
    /\ replayed = {}
    /\ not_ok = <<>>
    /\ session = Started

NextThrottle ==
    \/ ThrottleTick
    \/ WrapperCall
    \/ BodyReturns
    \/ BodyRaises

SpecThrottle == InitThrottle /\ [][NextThrottle]_vars

(***************************************************************************)
(* The same with reads of the Ledger that fail with an operational error.  *)
(***************************************************************************)
\* line 535, when the query of get_for_remarks(remarks) fails
MainPlaceStraddleReadFails(item) ==
    /\ InBody
    /\ get_remarks(Straddle(item)) \in order_queue
    /\ place_order_read_fails(PrimaryOrder(item), NoRemarks, COMPLETE, NoRemarks)
    /\ UNCHANGED <<proc, pc, run, clock, subscribed_symbols, delay_elapsed, transactions, order_prices, throttle,
                   symbols, liveltp, feed_calls, square_offs, resume_k, session, not_ok, engine, replayed>>

\* line 593, when the query of get_pnl fails
MainCancelOnProfitReadFails ==
    /\ InBody
    /\ cancel_on_profit_read_fails(target_mtm, 0 - target_mtm * TargetLossPercent)
    /\ UNCHANGED <<pc, run, clock, subscribed_symbols, transactions, order_prices, throttle, symbols, liveltp,
                   feed_calls, resume_k, session, not_ok, engine, replayed>>

NextReadFails ==
    \/ NextRestart
    \/ \E item \in Items : MainPlaceStraddleReadFails(item)
    \/ MainCancelOnProfitReadFails

SpecReadFails == InitRestart /\ [][NextReadFails]_vars

(***************************************************************************)
(* main() from the construction of ShoonyaTransaction: __init__ ends with  *)
(* transaction_manager.start() (line 66), and main() goes on to its loop   *)
(* when start() has returned.  The feed delivers no update before the      *)
(* session is open.                                                        *)
(***************************************************************************)
\* OrderManager._open_callback, lines 37-50, when the websocket start() has started
\* connects: opened becomes (or stays) True
OpenCallback ==
    /\ proc \in {"starting", "running"}
    /\ session.socket = "connecting"
    /\ session' = [session EXCEPT !.opened = TRUE, !.socket = "open"]
    /\ UNCHANGED proc
    /\ UNCHANGED <<pc, run, clock, order_queue, subscribed_symbols, delay_elapsed,
                   gateway, transactions, order_prices, throttle, symbols, liveltp, feed_calls, square_offs,
                   resume_k, not_ok, engine, replayed>>

\* start(), lines 108-117: the top of a pass starts a websocket unless opened is set
StartWebsocket ==
    /\ proc = "starting"
    /\ session.at = "top"
    /\ session' = [session EXCEPT !.at = "wait",
                                  !.socket = IF session.opened THEN @ ELSE "connecting"]
    /\ UNCHANGED proc
    /\ UNCHANGED <<pc, run, clock, order_queue, subscribed_symbols, delay_elapsed,
                   gateway, transactions, order_prices, throttle, symbols, liveltp, feed_calls, square_offs,
                   resume_k, not_ok, engine, replayed>>

\* The rest of a pass up to line 139, from the end of the wait of lines 119-128: the
\* session is open (lines 130-132), or the time is up (lines 134-137), or the loop goes
\* on (line 139).  In the first two cases start() returns, and so does __init__.
StartPass ==
    /\ proc = "starting"
    /\ session.at = "wait"
    /\ IF session.opened
       THEN /\ session' = [session EXCEPT !.running = TRUE, !.attempts = @ + 1,
                                          !.at = "returned"]
            /\ proc' = "running"
       ELSE IF session.attempts + 1 >= StartPasses
       THEN /\ session' = [session EXCEPT !.attempts = @ + 1, !.at = "returned"]
            /\ proc' = "running"
       ELSE /\ session' = [session EXCEPT !.attempts = @ + 1, !.at = "retry"]
            /\ proc' = "starting"
    /\ UNCHANGED <<pc, run, clock, order_queue, subscribed_symbols, delay_elapsed,
                   gateway, transactions, order_prices, throttle, symbols, liveltp, feed_calls, square_offs,
                   resume_k, not_ok, engine, replayed>>

\* lines 140-141: the 30 seconds of wait_with_progress are over, and close_websocket
\* closes whatever websocket there is; the loop goes back to line 108
StartRetry ==
    /\ proc = "starting"
    /\ session.at = "retry"
    /\ session' = [session EXCEPT !.socket = "closed", !.at = "top"]
    /\ UNCHANGED proc
    /\ UNCHANGED <<pc, run, clock, order_queue, subscribed_symbols, delay_elapsed,
                   gateway, transactions, order_prices, throttle, symbols, liveltp, feed_calls, square_offs,
                   resume_k, not_ok, engine, replayed>>

InitStart ==
    /\ proc = "starting"
    /\ pc = "while"
    /\ run = 1
    /\ clock = 1
    /\ order_queue = OrderQueueInit
    /\ subscribed_symbols = {}
    /\ delay_elapsed = [f \in DelayedFunctions |-> TRUE]
    /\ gateway = <<>>
    /\ transactions = <<>>
    /\ order_prices = <<>>
    /\ throttle = ThrottleInit("cancel_on_profit")
    /\ symbols = {}
    /\ liveltp = <<>>
    /\ feed_calls = NoFeedCalls
    /\ square_offs = 0
    /\ resume_k = 0
    /\ engine = EngineInit
    /\ replayed = {}
    /\ not_ok = <<>>
    /\ session = NotStarted

NextStart ==
    \/ StartWebsocket
    \/ StartPass
    \/ StartRetry
    \/ OpenCallback
    \/ MainNext
    \/ \E i \in 1..MaxOrders : session.socket = "open" /\ OrderUpdate(i)
    \/ \E i \in 1..MaxOrders : \E status \in OrderStatus : BrokerStep(i, status)

SpecStart == InitStart /\ [][NextStart]_vars

(***************************************************************************)
(* The EventEngine with a steady connection: registrations, order updates, *)
(* run(), and the flags is_running reads.                                  *)
(***************************************************************************)
NextEngine ==
    \/ EngineOpenCallback
    \/ EngineStart
    \/ EngineMonitorStops
    \/ \E m \in EngineMessages : EngineRegisterAction(m)
    \/ \E n \in 1..MaxEngineOrders : EngineAddOrder(n)
    \/ \E event \in EngineEvents : EngineEvent(event)
    \/ RunCall
    \/ RunStep
    \/ RunLoopEnds
    \/ RunReturn
    \/ \E symbol \in EngineSymbols : SubscribeCall(symbol)
    \/ SubscribeUpdate
    \/ \E symbol \in EngineSymbols : UnsubscribeRemove(symbol)
    \/ UnsubscribeCall

SpecEngine == InitRestart /\ [][NextEngine]_vars

(***************************************************************************)
(* The EventEngine in position: symbols are subscribed, positions are      *)
(* recorded and the feed gives ticks.                                      *)
(***************************************************************************)
NextTick ==
    \/ TickOpenCallback
    \/ TickStart
    \/ \E s \in TickSymbols : TickAddOrder(TickOrder[s])
    \/ \E s \in TickSymbols : TickSubscribeCall(s)
    \/ TickSubscribeUpdate
    \/ \E s \in TickSymbols : \E position \in Positions(s) : add_symbol_init_data(s, position)
    \/ \E tick \in Ticks : \E order_book \in OrderBooks : TickUpdate(tick, order_book)

SpecTick == InitRestart /\ [][NextTick]_vars

(***************************************************************************)
(* The EventEngine with a connection that is lost and made again while     *)
(* symbols are subscribed and unsubscribed.                                *)
(***************************************************************************)
SessionSymbols == {"NFO|ce_code", "NFO|pe_code"}

NextSession ==
    \/ EngineOpenCallback
    \/ SessionDrop
    \/ EngineStart
    \/ EngineMonitorStops
    \/ \E symbol \in SessionSymbols : SubscribeCall(symbol)
    \/ SubscribeUpdate
    \/ \E symbol \in SessionSymbols : UnsubscribeRemove(symbol)
    \/ UnsubscribeCall

SpecSession == InitRestart /\ [][NextSession]_vars

(***************************************************************************)
(* One run of main() next to other instances on the same account.          *)
(***************************************************************************)
NextIsolation ==
    \/ NextResume
    \/ \E other \in OtherInstances : \E status \in {OPEN, COMPLETE} :
          ForeignOrderUpdate(other, status)

SpecIsolation == InitRestart /\ [][NextIsolation]_vars

(***************************************************************************)
(* One run of main() in which the gateway may answer a submission by a     *)
(* failure or by nothing.                                                  *)
(***************************************************************************)
\* line 535, the call of line 89 failing
MainPlaceStraddleNotOk(item, response) ==
    /\ InBody
    /\ place_order_not_ok(PrimaryOrder(item), NoRemarks, COMPLETE, NoRemarks, response)
    /\ UNCHANGED <<proc, pc, run, clock, subscribed_symbols, delay_elapsed, transactions, order_prices, throttle,
                   symbols, liveltp, feed_calls, square_offs, resume_k, session, engine, replayed>>

\* line 560, the call of line 89 failing
MainPlaceStopLossNotOk(item, response) ==
    /\ InBody
    /\ place_order_not_ok(StopLossOrder(item), get_remarks(Straddle(item)), COMPLETE,
                          NoRemarks, response)
    /\ UNCHANGED <<proc, pc, run, clock, subscribed_symbols, delay_elapsed, transactions, order_prices, throttle,
                   symbols, liveltp, feed_calls, square_offs, resume_k, session, engine, replayed>>

NextNotOk ==
    \/ NextResume
    \/ \E item \in Items : \E response \in FailedResponses :
          MainPlaceStraddleNotOk(item, response)
    \/ \E item \in Items : \E response \in FailedResponses :
          MainPlaceStopLossNotOk(item, response)

SpecNotOk == InitRestart /\ [][NextNotOk]_vars

(***************************************************************************)
(* One run of main() on a fresh instance id before the cutoff, with the    *)
(* broker, the order updates and the throttles.                            *)
(***************************************************************************)
NextRun ==
    \/ NextResume
    \/ \E func \in DelayedFunctions : DelayElapses(func)

SpecRun == InitRestart /\ [][NextRun]_vars

\* The loop makes every call of its body in every pass: a call that can act in
\* infinitely many passes does act.  The feed delivers the updates the broker sends.
FairRun ==
    /\ SpecRun
    /\ WF_vars(MainWhileOver)
    /\ WF_vars(MainEndFor)
    /\ \A item \in Items :
          /\ SF_vars(MainPlaceStraddle(item))
          /\ SF_vars(MainSubscribeStraddle(item))
          /\ SF_vars(MainPlaceStopLoss(item))
          /\ SF_vars(MainSubscribeStopLoss(item))
          /\ SF_vars(MainCancelOnBookProfit(item))
          /\ SF_vars(MainUnsubscribe(item))
    /\ \A i \in 1..MaxOrders : WF_vars(OrderUpdate(i))
    /\ \A func \in DelayedFunctions : WF_vars(DelayElapses(func))

\* The same run with no more fairness than the loop going round and making, in
\* every pass, the two calls that follow a primary order: lines 550 and 560.
FairProgress ==
    /\ SpecRun
    /\ WF_vars(MainWhileOver)
    /\ WF_vars(MainEndFor)
    /\ \A item \in Items :
          /\ SF_vars(MainSubscribeStraddle(item))
          /\ SF_vars(MainPlaceStopLoss(item))

(***************************************************************************)
(* The feed giving its order updates to the handlers more than once and    *)
(* out of order, for the primary orders one run of main() submits.         *)
(***************************************************************************)
NextFeed ==
    \/ MainWhileOver
    \/ \E item \in Items : MainPlaceStraddle(item)
    \/ MainEndFor
    \/ \E i \in 1..MaxOrders : OrderUpdate(i)
    \/ \E i \in 1..MaxOrders : \E status \in OrderStatus : BrokerStep(i, status)
    \/ \E i \in 1..MaxOrders : ReplayOrderUpdate(i)
    \/ \E i \in 1..MaxOrders : \E status \in OrderStatus : StaleOrderUpdate(i, status)
    \/ \E m \in EngineMessages : EngineRegister(m)
    \/ \E i \in 1..MaxOrders : EngineAddExistingOrders(i)
    \/ \E i \in 1..MaxOrders : \E status \in OrderStatus :
          \E u \in EngineUpdates(status) : EngineOrderUpdate(i, status, u)

SpecFeed == InitRestart /\ [][NextFeed]_vars

(***************************************************************************)
(* The operations of ShoonyaTransaction with _square_off() reached: main() *)
(* reaches it through cancel_on_profit only (line 193), and                *)
(* exit_on_book_profit (line 216) calls it too.                            *)
(***************************************************************************)
CallSquareOff ==
    /\ InBody
    /\ _square_off
    /\ UNCHANGED <<proc, pc, run, clock, subscribed_symbols, delay_elapsed, transactions, order_prices, throttle,
                   symbols, liveltp, feed_calls, resume_k, session, not_ok,
                   engine, replayed>>

NextOps ==
    \/ MainNext
    \/ CallSquareOff
    \/ \E i \in 1..MaxOrders : OrderUpdate(i)
    \/ \E i \in 1..MaxOrders : \E status \in OrderStatus : BrokerStep(i, status)

SpecOps == InitRestart /\ [][NextOps]_vars

\* the same operations with the wall clock and the throttles: the states over() tests
NextOver ==
    \/ NextOps
    \/ \E func \in DelayedFunctions : DelayElapses(func)
    \/ ClockAdvances

SpecOver == Init /\ [][NextOver]_vars

\* the same operations with the ticks of the feed: the Ledgers get_pnl reads
NextPnl ==
    \/ NextOps
    \/ \E code \in Codes : \E lp \in TickPrices(code) : FeedUpdate(code, lp)

SpecPnl == InitRestart /\ [][NextPnl]_vars

(***************************************************************************)
(* main() with the call of place_book_profit_sl of lines 610-612 made:     *)
(* steps 5 to 7 of the workflow.                                           *)
(***************************************************************************)
\* lines 610-612
MainPlaceBookProfit ==
    /\ InBody
    /\ place_book_profit_sl(book_profit_ltp, qty)
    /\ UNCHANGED <<proc, pc, run, clock, subscribed_symbols, delay_elapsed, transactions, order_prices, throttle,
                   symbols, liveltp, feed_calls, square_offs, resume_k, session, not_ok,
                   engine, replayed>>

\* the broker triggers a stop order: it becomes an open limit order
BrokerTrigger(i) ==
    /\ i \in DOMAIN gateway
    /\ gateway[i].status = TRIGGER_PENDING
    /\ RowStatus(i) = TRIGGER_PENDING
    /\ gateway' = [gateway EXCEPT ![i].status = OPEN]
    /\ UNCHANGED <<proc, pc, run, clock, order_queue, subscribed_symbols, delay_elapsed,
                   transactions, order_prices, throttle, symbols, liveltp, feed_calls, square_offs, resume_k, session, not_ok,
                   engine, replayed>>

\* ticks of the primary symbols on either side of 95 % of the book-profit price
BookTickPrices == {56, 57}

NextBook ==
    \/ NextResume
    \/ MainPlaceBookProfit
    \/ \E i \in 1..MaxOrders : BrokerTrigger(i)
    \/ \E item \in Items : \E lp \in BookTickPrices : FeedUpdate(strikes_data[item].code, lp)

SpecBook == InitRestart /\ [][NextBook]_vars

(***************************************************************************)
(* ShoonyaTransaction.re_enqueue_rejected_order, and main() with its call  *)
(* of line 616 made, next to the calls of place_book_profit_sl and of      *)
(* _square_off.                                                            *)
(***************************************************************************)
\* "<s>" in remarks, for a part of a tag
Contains(remarks, s) == \E k \in DOMAIN remarks : remarks[k] = s

\* the tags of lines 351-356 with the test of "_book_profit" left out
RejectedTags ==
    {transactions[i].remarks :
        i \in {j \in get_orders : transactions[j].status = REJECTED}}

\* the tags line 356 adds: those of the rows of get_orders with "_book_profit" in
\* remarks and status Rejected
RejectedBookProfitTags ==
    {transactions[i].remarks :
        i \in {j \in get_orders : /\ Contains(transactions[j].remarks, "book_profit")
                                  /\ transactions[j].status = REJECTED}}

\* lines 346-358, a call that the throttle of 30 s lets through (a throttled call
\* returns at once)
re_enqueue_rejected_order ==
    order_queue' = order_queue \cup RejectedBookProfitTags

\* line 616
MainReEnqueueRejectedOrder ==
    /\ InBody
    /\ re_enqueue_rejected_order
    /\ UNCHANGED <<proc, pc, run, clock, subscribed_symbols, delay_elapsed, gateway,
                   transactions, order_prices, throttle, symbols, liveltp, feed_calls, square_offs, resume_k, session,
                   not_ok, engine, replayed>>

NextQueue ==
    \/ NextBook
    \/ CallSquareOff
    \/ MainReEnqueueRejectedOrder

SpecQueue == InitRestart /\ [][NextQueue]_vars

\* The loop makes every call of its body in every pass: a call that can act in
\* infinitely many passes does act.  The feed delivers the updates the broker sends.
FairBook ==
    /\ SpecBook
    /\ WF_vars(MainWhileOver)
    /\ WF_vars(MainEndFor)
    /\ SF_vars(MainPlaceBookProfit)
    /\ \A item \in Items :
          /\ SF_vars(MainPlaceStraddle(item))
          /\ SF_vars(MainSubscribeStraddle(item))
          /\ SF_vars(MainPlaceStopLoss(item))
          /\ SF_vars(MainSubscribeStopLoss(item))
          /\ SF_vars(MainCancelOnBookProfit(item))
          /\ SF_vars(MainUnsubscribe(item))
    /\ \A i \in 1..MaxOrders : WF_vars(OrderUpdate(i))

(***************************************************************************)
(* The properties.                                                         *)
(***************************************************************************)
PrimaryTag(item) == get_remarks(Straddle(item))

StopLossTag(item) == Suffix(PrimaryTag(item), "stop_loss")

BookProfitTag(item) == Suffix(PrimaryTag(item), "book_profit")

\* the tags of the order-placing steps main() runs
PlaceTags == {PrimaryTag(item) : item \in Items} \cup {StopLossTag(item) : item \in Items}

\* the gateway submissions made with a tag
Submissions(t) == {i \in DOMAIN gateway : gateway[i].remarks = t}

\* the test of cancel_on_profit with the bounds main() passes, lines 594-595
CrossedInMain == BoundCrossed(get_pnl, target_mtm, 0 - target_mtm * TargetLossPercent)

\* the Ledger has a row with this tag, and every row with it has this status
Recorded(t, status) ==
    /\ RowsFor(t) # {}
    /\ \A i \in RowsFor(t) : transactions[i].status = status

BothPrimariesRejected == \A item \in Items : Recorded(PrimaryTag(item), REJECTED)

\* the clock is at or after the cutoff of the day
AtOrAfterCutoff ==
    now.hour > CutoffHour \/ (now.hour = CutoffHour /\ now.minute >= CutoffMinute)

IsSquareOffTag(t) == t # NoRemarks /\ t[Len(t)] = "square_off"

----------------------------------------------------------------------------
\* C1: whenever cancel_on_profit evaluates (its throttle does not suppress the call)
\* and the total PnL computed from the Ledger is strictly above the target profit or
\* at or below the target loss, _square_off() is executed in that same call: the
\* call counts as one more square-off and leaves the remaining-work set empty.
C1_CrossingSquaresOff ==
    [][(MainCancelOnProfit /\ delay_elapsed["cancel_on_profit"] /\ CrossedInMain)
          => (square_offs' = square_offs + 1 /\ order_queue' = {})]_vars

\* C2: within one process run, however often place_order is called for the tag of an
\* order-placing step (primary or protective), the gateway receives at most one
\* submission with that tag from this run.
C2_AtMostOncePerRun ==
    \A t \in PlaceTags :
        Cardinality({i \in Submissions(t) : gateway[i].run = run}) <= 1

\* a protective order is submitted, its update has not reached the Ledger, and the
\* loop is in its body, where place_order is called again for every tag
C2_Witness ==
    /\ InBody
    /\ \E item \in Items : \E i \in Submissions(StopLossTag(item)) :
          i \notin DOMAIN transactions /\ gateway[i].run = run
    /\ \E item \in Items : \E i \in Submissions(PrimaryTag(item)) : gateway[i].run = run

\* C3: over any execution with crashes, restarts with the same instance id and
\* asynchronous order updates, each workflow tag is submitted to the gateway at most
\* once in total.
C3_AtMostOnceInTotal ==
    \A t \in PlaceTags : Cardinality(Submissions(t)) <= 1

\* C4: started on a Ledger holding Complete rows for the orders of steps 1..k of leg
\* "ce" (k = resume_k, 1 to 7) with a freshly built remaining-work set, the loop
\* issues no gateway call (place, cancel, subscribe, unsubscribe) of steps 1..k.
C4_NoReplay ==
    /\ resume_k >= 1 => \A i \in Submissions(PrimaryTag("ce")) : gateway[i].run # run
    /\ resume_k >= 2 => feed_calls["subscribe"][SubscribeCode(PrimarySymbol("ce"))] = 0
    /\ resume_k >= 3 => \A i \in Submissions(StopLossTag("ce")) : gateway[i].run # run
    /\ resume_k >= 4 => feed_calls["subscribe"][SubscribeCode(StopLossSymbol("ce"))] = 0
    /\ resume_k >= 5 => \A i \in Submissions(BookProfitTag("ce")) : gateway[i].run # run
    /\ resume_k >= 6 => \A i \in Submissions(StopLossTag("ce")) : gateway[i].cancels = 0
    /\ resume_k >= 7 => feed_calls["unsubscribe"][SubscribeCode(PrimarySymbol("ce"))] = 0

\* the process has just been started again, and the Ledger records the primary order
\* of the leg as Complete and holds no row for its protective order
RestartedAfterPrimary(item) ==
    /\ run > 1
    /\ proc = "running"
    /\ order_queue = OrderQueueInit
    /\ Recorded(PrimaryTag(item), COMPLETE)
    /\ RowsFor(StopLossTag(item)) = {}

\* this run has subscribed the primary symbol and submitted the protective order
Continued(item) ==
    /\ feed_calls["subscribe"][SubscribeCode(PrimarySymbol(item))] > 0
    /\ \E i \in Submissions(StopLossTag(item)) : gateway[i].run = run

\* C5: after a restart with the same instance id, with the primary order of a leg
\* Complete in the Ledger and no row for the leg's protective order, the loop
\* eventually subscribes the primary symbol and submits the protective order.
C5_ResumeContinues ==
    \A item \in Items : RestartedAfterPrimary(item) ~> Continued(item)

NewOrders == {j \in DOMAIN gateway' : j \notin DOMAIN gateway}

Flat(i) ==
    \/ gateway[i].status \in {CANCELED, REJECTED}
    \/ /\ gateway[i].status = COMPLETE
       /\ \E j \in Submissions(Suffix(gateway[i].remarks, "square_off")) :
             /\ gateway[j].tsym = gateway[i].tsym
             /\ gateway[j].qty = gateway[i].qty
             /\ gateway[j].trantype # gateway[i].trantype

\* C8: after _square_off() has returned, every order this instance has submitted is
\* cancelled or offset by an opposite exit order, also an order whose update had not
\* reached the Ledger when _square_off ran and an order that filled between the
\* Ledger read and the cancel request.
C8_AllExposureFlat ==
    square_offs > 0 =>
        \A i \in DOMAIN gateway : IsSquareOffTag(gateway[i].remarks) \/ Flat(i)

\* C9: at every instant at or after the cutoff (15:31), 16:00 and later included,
\* over() returns true whatever the remaining-work set contains: the while test ends
\* the loop.
C9_DayOverGate ==
    [][(MainWhileOver /\ AtOrAfterCutoff) => proc' = "done"]_vars

PrimaryRejected(item) ==
    \E i \in RowsFor(PrimaryTag(item)) : transactions[i].status = REJECTED

JoinedLtp(i) ==
    { liveltp[s.symbolcode] :
        s \in {x \in symbols : /\ x.tradingsymbol = transactions[i].tradingsymbol
                                /\ x.symbolcode \in DOMAIN liveltp} }

\* the value the claim gives to the order row i (a tradingsymbol has one symbol code)
ClaimedRowPnl(i) ==
    IF i \notin DOMAIN transactions THEN 0
    ELSE IF JoinedLtp(i) = {} THEN 0
    ELSE LET lastPrice == CHOOSE x \in JoinedLtp(i) : TRUE
             avgPrice == transactions[i].avgprice
         IN  IF avgPrice = -1 \/ transactions[i].qty = -1 THEN 0
             ELSE IF transactions[i].buysell = "S"
             THEN (avgPrice - lastPrice) * transactions[i].qty
             ELSE IF transactions[i].buysell = "B"
             THEN (lastPrice - avgPrice) * transactions[i].qty
             ELSE 0

RECURSIVE ClaimedTotal(_)
ClaimedTotal(n) == IF n = 0 THEN 0 ELSE ClaimedTotal(n - 1) + ClaimedRowPnl(n)

\* C17: get_pnl values every joined order row of this instance that does not carry
\* the unfilled sentinel at (avgPrice - lastPrice) * qty when its side is sell and at
\* (lastPrice - avgPrice) * qty when it is buy; the total it returns is the sum of
\* these values; rows with avgPrice = -1 or qty = -1 contribute nothing.
C17_PnlCorrect == get_pnl = ClaimedTotal(MaxOrders)

\* the join holds a sold row whose price has moved and a bought row that carries the
\* unfilled sentinel
C17_Witness ==
    /\ \E i \in DOMAIN transactions :
          transactions[i].buysell = "S" /\ ClaimedRowPnl(i) # 0
    /\ \E i \in DOMAIN transactions :
          /\ transactions[i].buysell = "B"
          /\ transactions[i].avgprice = -1
          /\ JoinedLtp(i) # {}
    /\ get_pnl # 0

\* this step calls api.subscribe for the symbol
Subscribes(symbol_data) ==
    feed_calls'["subscribe"][SubscribeCode(symbol_data)]
        > feed_calls["subscribe"][SubscribeCode(symbol_data)]

\* this step submits an order with the tag
Submits(t) == \E i \in DOMAIN gateway' : i \notin DOMAIN gateway /\ gateway'[i].remarks = t

\* C15: the subscription of a leg's primary symbol and the submission of the leg's
\* protective order happen only in a state where the Ledger shows the primary order
\* Complete, and the subscription of the protective symbol only in a state where the
\* Ledger shows the protective order Complete; none of them happens while the Ledger
\* shows the leg's primary Open, Pending, Rejected or Canceled, or has no row for it.
C15_DagOrdering ==
    [][\A item \in Items :
          /\ (Subscribes(PrimarySymbol(item)) \/ Submits(StopLossTag(item)))
                => Recorded(PrimaryTag(item), COMPLETE)
          /\ Subscribes(StopLossSymbol(item))
                => /\ Recorded(StopLossTag(item), COMPLETE)
                   /\ Recorded(PrimaryTag(item), COMPLETE)]_vars

\* steps 2, 3 and 4 of a leg are done while the primary order of the other leg is
\* Rejected or Canceled in the Ledger and nothing is subscribed or submitted for it
C15_Witness ==
    \E item \in Items : \E other \in Items \ {item} :
        /\ feed_calls["subscribe"][SubscribeCode(PrimarySymbol(item))] = 1
        /\ feed_calls["subscribe"][SubscribeCode(StopLossSymbol(item))] = 1
        /\ Submissions(StopLossTag(item)) # {}
        /\ \E i \in RowsFor(PrimaryTag(other)) : transactions[i].status \in {REJECTED, CANCELED}
        /\ feed_calls["subscribe"][SubscribeCode(PrimarySymbol(other))] = 0
        /\ Submissions(StopLossTag(other)) = {}

\* the Ledger shows the protective order of the leg TriggerPending, and the
\* <leg>_book_profit tag is in the remaining-work set without a Ledger row
AwaitsProfitBooking(item) ==
    /\ proc = "running"
    /\ Recorded(StopLossTag(item), TRIGGER_PENDING)
    /\ BookProfitTag(item) \in order_queue
    /\ RowsFor(BookProfitTag(item)) = {}

\* C12: for each leg, once the Ledger shows the protective order TriggerPending
\* while the <leg>_book_profit tag is still in the remaining-work set and has no
\* Ledger row, the loop eventually (at the latest when this state lasts) submits a
\* profit-booking order tagged <leg>_book_profit and removes the tag from the set.
C12_ProfitBookingSubmitted ==
    \A item \in Items :
        AwaitsProfitBooking(item) ~>
            \/ ~AwaitsProfitBooking(item)
            \/ Submissions(BookProfitTag(item)) # {} /\ BookProfitTag(item) \notin order_queue

\* the Ledger shows the profit-booking order of the leg Complete and the protective
\* order still open
AwaitsCancel(item) ==
    /\ proc = "running"
    /\ Recorded(BookProfitTag(item), COMPLETE)
    /\ RowsFor(StopLossTag(item)) # {}
    /\ \A i \in RowsFor(StopLossTag(item)) : transactions[i].status \in {OPEN, TRIGGER_PENDING}

\* C13: for each leg, whenever the Ledger shows the profit-booking order Complete
\* while the protective order is still open (Open or TriggerPending), the loop
\* eventually (at the latest when this state lasts) issues cancel_order for the
\* protective order id exactly once and removes the <leg>_cancel tag from the
\* remaining-work set.
C13_ProtectiveCancelled ==
    \A item \in Items :
        AwaitsCancel(item) ~>
            \/ ~AwaitsCancel(item)
            \/ /\ \A i \in Submissions(StopLossTag(item)) : gateway[i].cancels = 1
               /\ Suffix(PrimaryTag(item), "cancel") \notin order_queue

\* the Ledger shows the profit-booking order of the leg Complete or its primary order
\* Canceled
MayUnsubscribe(item) ==
    \/ \E i \in RowsFor(BookProfitTag(item)) : transactions[i].status = COMPLETE
    \/ \E i \in RowsFor(PrimaryTag(item)) : transactions[i].status = CANCELED

AllSubmittedTerminal ==
    /\ gateway # <<>>
    /\ Len(gateway) < MaxOrders
    /\ \A i \in DOMAIN gateway : RowStatus(i) \in {COMPLETE, CANCELED, REJECTED}

\* C16: in an execution of the loop where no PnL bound is crossed and the cutoff is
\* not reached, if every order submitted for both legs eventually has a terminal
\* status in the Ledger, then the remaining-work set eventually becomes empty and
\* over() becomes true; here only that the set becomes empty or the loop ends.
C16_WorkflowCompletes ==
    <>[]AllSubmittedTerminal => <>(order_queue = {} \/ proc = "done")

\* C18: an order update given to the Ledger's handler a second time, with the same
\* order id and unchanged status, leaves the Ledger with the same order ids and the
\* same status, price, quantity, side, symbol and tag in every row; an order update
\* given to the EventEngine again does not call a reaction an earlier delivery has
\* consumed: no registered reaction is called twice.
C18_Dedup ==
    [][/\ \A i \in 1..MaxOrders : ReplayOrderUpdate(i) => transactions' = transactions
       /\ \A i \in 1..MaxOrders : \A status \in OrderStatus :
             (StaleOrderUpdate(i, status) /\ RowStatus(i) = status)
                => transactions' = transactions
       /\ \A m \in EngineMessages : \A n \in 1..MaxRegistrations :
             engine'.fired[m][n] <= 1]_vars

\* both handlers have been given an update a second time: the Ledger holds a filled
\* row, and the engine has called the reaction of a filled order and holds no entry
\* for it any more
C18_Witness ==
    /\ replayed = {"ledger", "engine"}
    /\ \E i \in DOMAIN transactions : transactions[i].status = COMPLETE
    /\ \E i \in engine.existing_orders :
          /\ gateway[i].status = COMPLETE
          /\ engine.fired[gateway[i].remarks][1] = 1
          /\ engine.on_complete_methods[gateway[i].remarks] = NotRegistered

\* C19: once a Ledger row has status Complete, Canceled or Rejected, no later order
\* update for the same order id (a stale or out-of-order one carrying Pending, Open or
\* TriggerPending, or one without fill fields) changes the row's status or replaces
\* its recorded fill price by the unfilled sentinel.
C19_TerminalFinal ==
    [][\A i \in DOMAIN transactions :
          transactions[i].status \in {COMPLETE, CANCELED, REJECTED} =>
              /\ i \in DOMAIN transactions'
              /\ transactions'[i].status = transactions[i].status
              /\ transactions[i].avgprice # -1 => transactions'[i].avgprice # -1]_vars

\* C20: a failure of the query inside get_for_remarks is fatal, never silent: when
\* the read place_order makes for a tag whose Ledger row exists fails with an
\* operational error, the process terminates, and the failed read does not let
\* place_order submit an order.
C20_ReadFailureFatal ==
    [][\A item \in Items :
          (MainPlaceStraddleReadFails(item) /\ RowsFor(PrimaryTag(item)) # {})
              => (proc' # "running" /\ gateway' = gateway)]_vars

\* C31: a failure of the query inside get_pnl leaves the risk check defined: when
\* cancel_on_profit executes and the query of get_pnl fails, the process keeps
\* running and no square-off is made (no order is placed, none is cancelled).
C31_PnlFailureHandled ==
    [][(MainCancelOnProfitReadFails /\ delay_elapsed["cancel_on_profit"])
          => (proc' = "running" /\ gateway' = gateway /\ square_offs' = square_offs)]_vars

\* C32: OrderPrice is kept per (symbol, tag): for every order of this instance whose
\* update the Ledger has recorded, get_order_prices(symbol, tag) returns the price and
\* the quantity of that order's update, whatever updates other tags of the same
\* trading symbol have had since.
C32_PricePerTag ==
    \A i \in DOMAIN transactions \cap DOMAIN gateway :
        get_order_prices(transactions[i].tradingsymbol, transactions[i].remarks)
            = <<gateway[i].prc, gateway[i].qty>>

\* C33: subscription rows persist.  No step removes a row of the symbols table; a step
\* that calls the gateway's unsubscribe leaves the table as it is; and the table holds at
\* most one row for a symbol code, also after the symbol is subscribed a second time.
C33_SubscriptionRowsPersist ==
    [][/\ symbols \subseteq symbols'
       /\ feed_calls'["unsubscribe"] # feed_calls["unsubscribe"] => symbols' = symbols
       /\ \A s, t \in symbols' : s.symbolcode = t.symbolcode => s = t]_vars

\* a symbol whose row an earlier run has left has been subscribed again; this run
\* has subscribed the primary symbol of leg "ce" and then unsubscribed it, and the
\* table has its row
C33_Witness ==
    /\ "symbols" \in replayed
    /\ feed_calls["subscribe"][SubscribeCode(PrimarySymbol("ce"))] >= 1
    /\ feed_calls["unsubscribe"][SubscribeCode(PrimarySymbol("ce"))] >= 1
    /\ SubscribeCode(PrimarySymbol("ce")) \notin subscribed_symbols
    /\ \E s \in symbols : s.symbolcode = PrimarySymbol("ce").symbolcode

\* C34: the throttle.  The body of a decorated function starts more than its delay
\* after its previous start; a call made within the delay of the last execution that
\* returned runs nothing, changes nothing and returns None; and a body that raises
\* leaves the last-execution time as it was.
C34_Throttle ==
    [][/\ throttle'.bodies # throttle.bodies /\ throttle.bodies > 0
            => throttle.now - throttle.body_started > delay[throttle.func]
       /\ (WrapperCall /\ throttle.now - throttle.last_called <= delay[throttle.func])
            => /\ throttle'.returned = "None"
               /\ throttle'.phase = "idle"
               /\ throttle'.bodies = throttle.bodies
               /\ throttle'.last_called = throttle.last_called
       /\ BodyRaises => throttle'.last_called = throttle.last_called]_vars

\* the body has run twice, and a later call has returned None
C34_Witness ==
    /\ throttle.bodies >= 2
    /\ throttle.returned = "None"
    /\ throttle.now - throttle.last_called <= delay[throttle.func]

\* the loop is running and the Ledger shows the primary order of the leg Complete
PrimaryComplete(item) ==
    /\ proc = "running"
    /\ Recorded(PrimaryTag(item), COMPLETE)

\* the primary symbol of the leg has been subscribed once and one protective order
\* of the leg has been submitted
ProgressMade(item) ==
    /\ feed_calls["subscribe"][SubscribeCode(PrimarySymbol(item))] = 1
    /\ Cardinality(Submissions(StopLossTag(item))) = 1

\* C35: forward progress in one run.  Once the Ledger shows the primary order of a leg
\* Complete, the loop eventually has subscribed the leg's primary symbol and submitted
\* the leg's protective order, unless the loop has ended (over() or an exception) or
\* the gateway takes no further order; and neither is ever done a second time.
C35_ForwardProgress ==
    /\ \A item \in Items :
          PrimaryComplete(item) ~>
              (ProgressMade(item) \/ proc # "running" \/ Len(gateway) = MaxOrders)
    /\ [](\A item \in Items :
            /\ feed_calls["subscribe"][SubscribeCode(PrimarySymbol(item))] <= 1
            /\ Cardinality(Submissions(StopLossTag(item))) <= 1)

\* the primary order of a leg is Complete in the Ledger, its symbol is subscribed and
\* its protective order submitted, while the gateway could take a further order
C35_Witness ==
    \E item \in Items :
        /\ PrimaryComplete(item)
        /\ ProgressMade(item)
        /\ Len(gateway) < MaxOrders

\* the tag of an exit order placed against a row that is itself a square-off exit
IsReversedExitTag(t) ==
    /\ Len(t) >= 2
    /\ t[Len(t)] = "square_off"
    /\ t[Len(t) - 1] = "square_off"

\* C37: exits are never reversed.  No order whose tag ends in _square_off_square_off
\* is ever submitted to the gateway: _square_off places no exit order against a
\* Ledger row that is itself a square-off exit.
C37_ExitsNeverReversed ==
    \A i \in DOMAIN gateway : ~IsReversedExitTag(gateway[i].remarks)

\* C38: start() ends within its passes, and when it returns with running set the
\* websocket of the session is open: it has not closed a session that had just opened.
C38_StartReportsOpenSession ==
    [][/\ session'.attempts <= StartPasses
       /\ (proc = "starting" /\ proc' = "running" /\ session'.running)
            => session'.socket = "open"]_vars

\* a step of a handler: the tables the handlers write, and only they, have changed
LedgerWritten == transactions' # transactions \/ liveltp' # liveltp

\* C28: a step of the tick handler or of the order-update handler (a step that writes
\* the Ledger tables transactions or liveltp) changes neither the remaining-work set
\* nor the in-memory set of subscribed symbols.
C28_SingleWriter ==
    [][LedgerWritten => UNCHANGED <<order_queue, subscribed_symbols>>]_vars

\* both handlers have written, in a run whose loop has changed both sets
C28_Witness ==
    /\ transactions # <<>>
    /\ liveltp # <<>>
    /\ order_queue # OrderQueueInit
    /\ subscribed_symbols # {}

\* the calls of api.place_order with tag t in this run: acknowledged or not
PlaceCalls(t) == Cardinality({i \in Submissions(t) : gateway[i].run = run}) + NotOkCalls(t)

\* C29: in one process run, a step takes a tag of a placed order out of the
\* remaining-work set exactly when it calls api.place_order with that tag, whatever the
\* gateway answers, and no tag is given to api.place_order a second time.
C29_NoRetry ==
    [][\A t \in PlaceTags :
          /\ (t \in order_queue /\ t \notin order_queue') <=> (PlaceCalls(t)' = PlaceCalls(t) + 1)
          /\ PlaceCalls(t)' <= 1]_vars

\* a primary whose submission failed is out of the set, and the loop has gone on to
\* submit the other primary
C29_Witness ==
    \E item \in Items :
        /\ NotOkCalls(PrimaryTag(item)) = 1
        /\ PrimaryTag(item) \notin order_queue
        /\ \E other \in Items \ {item} : Submissions(PrimaryTag(other)) # {}

\* C27 as stated: every step leaves the remaining-work set equal to, or a subset of,
\* its value before the step.
C27_Monotone == [][order_queue' \subseteq order_queue]_vars

\* the Ledger holds a Rejected row of a profit-booking order with tag t
RejectedProfitBooking(t) ==
    /\ Contains(t, "book_profit")
    /\ \E i \in DOMAIN transactions :
          transactions[i].remarks = t /\ transactions[i].status = REJECTED

\* C27, amended: every step leaves the remaining-work set equal to, or a subset of, its
\* value before, except a step of re_enqueue_rejected_order, which adds the tags of
\* the profit-booking orders the Ledger records as Rejected and nothing else.
C27_MonotoneButReEnqueue ==
    [][\/ order_queue' \subseteq order_queue
       \/ /\ order_queue \subseteq order_queue'
          /\ \A t \in order_queue' \ order_queue : RejectedProfitBooking(t)]_vars

\* a profit-booking tag is back in the set after its order was rejected
C27_Witness ==
    \E item \in Items :
        /\ Recorded(BookProfitTag(item), REJECTED)
        /\ BookProfitTag(item) \in order_queue
        /\ PrimaryTag(item) \notin order_queue

\* the sum of the entries of a breakdown
RECURSIVE SumEntries(_, _)
SumEntries(msg, keys) ==
    IF keys = {} THEN 0
    ELSE LET k == CHOOSE y \in keys : TRUE
         IN  msg[k] + SumEntries(msg, keys \ {k})

\* C30: whenever get_pnl returns a non-empty breakdown, its Total is the sum of the pnl
\* values of the breakdown's per-symbol entries.
C30_TotalIsSumOfEntries ==
    \A msg \in PnlMsgs :
        DOMAIN msg # {} => PnlTotal = SumEntries(msg, DOMAIN msg)

\* C21: while the feed session has never been opened no order is submitted to the
\* gateway, and when start() has used up its passes without the session opening the
\* process does not go on to the loop of the orchestrator.
C21_SessionFailureFatal ==
    ~session.opened =>
        /\ gateway = <<>>
        /\ session.attempts >= StartPasses => proc # "running"

\* the tag is one another instance has built
CreatedByOther(remarks) ==
    \E other \in OtherInstances : remarks = remarks_text(other, Straddle("ce"))

\* C22: no row of the Ledger that this instance reads as its own (get_orders) carries
\* a tag created by another instance, whatever the two instance ids are.
C22_InstanceIsolation ==
    \A i \in get_orders : ~CreatedByOther(transactions[i].remarks)

C25_RunOnce ==
    [][/\ (engine.run_pc = RunLoopDone /\ engine'.run_pc = 0) =>
            /\ Len(engine.executed) >= engine.base + Len(engine.at_call)
            /\ SubSeq(engine.executed, engine.base + 1, engine.base + Len(engine.at_call))
                    = engine.at_call
            /\ engine'.user_methods = <<>>
       /\ \A i, j \in DOMAIN engine'.executed :
            i # j => engine'.executed[i] # engine'.executed[j]]_vars

\* run() has returned twice: the first call ran two actions, the second found the queue
\* empty and ran none
C25_Witness ==
    /\ engine.run_pc = 0
    /\ Len(engine.executed) = 2
    /\ engine.base = 2
    /\ engine.at_call = <<>>
    /\ engine.user_methods = <<>>

\* C36: no lost action.  When run() empties the queue (line 483), every action the
\* queue holds has been called, also one that register has appended on the delivery
\* thread while run() was executing.
C36_NoLostAction ==
    [][(engine.run_pc = RunLoopDone /\ engine'.run_pc = 0) =>
          \A k \in DOMAIN engine.user_methods :
              \E j \in DOMAIN engine.executed :
                  engine.executed[j] = engine.user_methods[k]]_vars

\* the tag has a reaction in the registry
Registered(m) == m \in EngineMessages /\ engine.on_complete_methods[m] # NotRegistered

\* what the update is to do to the engine
C24_Effect(event) ==
    LET m == event.remarks
        n == engine.on_complete_methods[m]
    IN  IF Registered(m) /\ event.update.status = "COMPLETE" /\ event.update.reporttype = "Fill"
        THEN /\ engine'.fired[m][n] = engine.fired[m][n] + 1
             /\ engine'.on_complete_methods[m] = NotRegistered
        ELSE IF Registered(m) /\ event.update.reporttype = "Canceled"
        THEN /\ engine'.fired = engine.fired
             /\ engine'.on_complete_methods[m] = NotRegistered
        ELSE /\ engine'.fired = engine.fired
             /\ engine'.on_complete_methods = engine.on_complete_methods
             /\ engine'.user_methods = engine.user_methods

\* C24: for an update of an order the engine has been told of: a Complete/Fill update
\* with a registered tag calls the reaction and removes it, a Canceled update with a
\* registered tag removes it without calling it, any other update changes neither
\* the registry nor the queue of actions; and no reaction is called more than once.
C24_OneShot ==
    [][/\ \A event \in EngineEvents :
            (EngineEvent(event) /\ event.norenordno \in engine.existing_orders)
                => C24_Effect(event)
       /\ \A m \in EngineMessages : \A n \in 1..MaxRegistrations :
            engine'.fired[m][n] <= 1]_vars

\* C26: the first open of the session resubscribes nothing; and whenever, after a
\* reconnect, the session is connected and no call of subscribe or unsubscribe is
\* under way, the symbols subscribed on the live session are those of the in-memory
\* set of subscribed symbols.
C26_ReconnectContinuity ==
    /\ engine.reopens = 0 => engine.resubscribed = 0
    /\ (engine.reopens >= 1 /\ engine.connected /\ engine.call = NoCall)
            => engine.live = engine.subscribed_symbols

====
